---- MODULE Spec2Model ----
(***************************************************************************)
(* A model of wasm-decompile's function pipeline: the stack-to-block       *)
(* decoder (src/src/ir/decode.rs), the IR (src/src/ir/mod.rs) and the      *)
(* optimization passes (src/src/ir/passes.rs).  One function body is       *)
(* decoded operator by operator next to a streaming validator, then        *)
(* Func::optimize runs its passes and the function is printed.             *)
(***************************************************************************)
EXTENDS Integers, Sequences, FiniteSets, TLC

(***************************************************************************)
(* Bounds of the exploration.                                              *)
(***************************************************************************)
\* Operators of a function body enumerated exhaustively (the final end included).
MaxOps == 4
\* Control frames the enumerated bodies nest (the function frame included).
MaxFrames == 3
\* Operands the enumerated bodies keep on the validator's stack.
MaxStack == 2
\* Hops a path through the CFG is followed when its statements are collected.
MaxHops == 6

(***************************************************************************)
(* The module around the decoded function.  Function 0 is the function     *)
(* being decoded: one i32 parameter (local 0) and one declared i64 local   *)
(* (local 1); its result type is chosen in Init.  Functions 1, 2, 3        *)
(* and 4 are callees; function 4 has two results.                          *)
(***************************************************************************)
ValTypes == {"i32", "i64"}

FuncParams(f) ==
    CASE f = 0 -> <<"i32">>
      [] f = 3 -> <<"i32">>
      [] OTHER -> <<>>

FuncResultsOf(f, own) ==
    CASE f = 0 -> own
      [] f = 1 -> <<>>
      [] f = 2 -> <<"i32">>
      [] f = 3 -> <<"i32">>
      [] f = 4 -> <<"i32", "i32">>
      [] OTHER -> <<>>

DeclaredLocals == <<"i64">>

(***************************************************************************)
(* IR data model (src/src/ir/mod.rs).  Every variant of an enum is a       *)
(* record with the same fields, told apart by k.                           *)
(***************************************************************************)
Expr(k, n, ix, args) == [k |-> k, n |-> n, ix |-> ix, args |-> args]

I32Const(v) == Expr("I32Const", v, <<>>, <<>>)
I64Const(v) == Expr("I64Const", v, <<>>, <<>>)
BlockParam(i) == Expr("BlockParam", i, <<>>, <<>>)
GetLocal(i) == Expr("GetLocal", i, <<>>, <<>>)
GetLocalN(ix) == Expr("GetLocalN", 0, ix, <<>>)
CallExpr(f, params) == Expr("Call", f, <<>>, params)
Unary(e) == Expr("I32Eqz", 0, <<>>, <<e>>)
UnaryOf(op, e) == Expr(op, 0, <<>>, <<e>>)
F32Const(v) == Expr("F32Const", v, <<>>, <<>>)
Binary(l, r) == Expr("I32Add", 0, <<>>, <<l, r>>)
Bottom == Expr("Bottom", 0, <<>>, <<>>)

Stmt(k, n, ix, es, t, f) == [k |-> k, n |-> n, ix |-> ix, es |-> es, t |-> t, f |-> f]

Nop == Stmt("Nop", 0, <<>>, <<>>, <<>>, <<>>)
Drop(e) == Stmt("Drop", 0, <<>>, <<e>>, <<>>, <<>>)
LocalSet(i, e) == Stmt("LocalSet", i, <<>>, <<e>>, <<>>, <<>>)
LocalSetN(ix, e) == Stmt("LocalSetN", 0, ix, <<e>>, <<>>, <<>>)
CallStmt(call) == Stmt("Call", 0, <<>>, <<call>>, <<>>, <<>>)
IfStmt(c, t, f) == Stmt("If", 0, <<>>, <<c>>, t, f)

Term(k, cond, tg, df, args) == [k |-> k, cond |-> cond, tg |-> tg, df |-> df, args |-> args]

Unknown == Term("Unknown", <<>>, <<>>, <<>>, <<>>)
Unreachable == Term("Unreachable", <<>>, <<>>, <<>>, <<>>)
Return(values) == Term("Return", <<>>, <<>>, <<>>, values)
Br(target, values) == Term("Br", <<>>, <<target>>, <<>>, values)
BrIf(c, t, f, values) == Term("BrIf", <<c>>, <<t, f>>, <<>>, values)
BrTable(targets, default, values) == Term("BrTable", <<>>, targets, <<default>>, values)

Block(params, statements, terminator) ==
    [params |-> params, statements |-> statements, terminator |-> terminator]

\* Terminator::successors
Successors(t) ==
    CASE t.k = "Br" -> t.tg
      [] t.k = "BrIf" -> t.tg
      [] t.k = "BrTable" -> t.tg \o t.df
      [] OTHER -> <<>>

Range(s) == {s[i] : i \in DOMAIN s}


Last(s) == s[Len(s)]
Front(s) == SubSeq(s, 1, Len(s) - 1)

(***************************************************************************)
(* Operators of a function body (wasm::Operator).  d is a relative depth,  *)
(* a local index, a function index or a constant; tg is a br_table's       *)
(* target list.                                                            *)
(***************************************************************************)
Op(op, bt, d, tg) == [op |-> op, bt |-> bt, d |-> d, tg |-> tg]

\* wasm::BlockType: Empty, Type(i32), Type(i64); the function frame holds FuncType.
BlockTypes == {"empty", "i32", "i64"}

\* Builder::blockty_params
blockty_params(blockty) ==
    CASE blockty = "functype" -> FuncParams(0)
      [] OTHER -> <<>>

\* Builder::blockty_results
blockty_results(blockty, own) ==
    CASE blockty = "empty" -> <<>>
      [] blockty = "functype" -> own
      [] OTHER -> <<blockty>>

(***************************************************************************)
(* The streaming validator (wasmparser::FuncValidator), the collaborator   *)
(* the decoder calls before each operator and reads back after it.  It is  *)
(* the validation algorithm of the WebAssembly specification: a control    *)
(* stack of frames and an operand stack of value types, where "bot" is the *)
(* unknown type popped from a polymorphic stack.                           *)
(***************************************************************************)
VFrame(kind, blockty, height) ==
    [kind |-> kind, blockty |-> blockty, height |-> height, unreachable |-> FALSE]

VInit == [ok |-> TRUE, vstack |-> <<>>, vframes |-> <<VFrame("Func", "functype", 0)>>]

VFail(v) == [v EXCEPT !.ok = FALSE]

VPopOne(v, expect) ==
    IF ~v.ok \/ v.vframes = <<>> THEN VFail(v)
    ELSE LET top == Last(v.vframes) IN
         IF Len(v.vstack) = top.height
         THEN IF top.unreachable THEN v ELSE VFail(v)
         ELSE LET t == Last(v.vstack) IN
              IF expect = "any" \/ t = expect \/ t = "bot"
              THEN [v EXCEPT !.vstack = Front(v.vstack)]
              ELSE VFail(v)

RECURSIVE VPopSeq(_, _)
VPopSeq(v, ts) ==
    IF ts = <<>> THEN v ELSE VPopSeq(VPopOne(v, Last(ts)), Front(ts))

VPushSeq(v, ts) == [v EXCEPT !.vstack = @ \o ts]

VSetUnreachable(v) ==
    IF ~v.ok THEN v
    ELSE LET n == Len(v.vframes) IN
         [v EXCEPT !.vstack = SubSeq(@, 1, v.vframes[n].height),
                   !.vframes[n].unreachable = TRUE]

\* The types a branch to the frame at relative depth d carries.
VLabelTypes(v, d, own) ==
    LET fr == v.vframes[Len(v.vframes) - d] IN
    IF fr.kind = "Loop" THEN blockty_params(fr.blockty)
    ELSE blockty_results(fr.blockty, own)

VPushCtrl(v, kind, blockty) ==
    IF ~v.ok THEN v
    ELSE VPushSeq([v EXCEPT !.vframes = Append(@, VFrame(kind, blockty, Len(v.vstack)))],
                  blockty_params(blockty))

\* Pops the top frame's results and the frame itself; the results are not pushed.
VPopCtrl(v, own) ==
    IF ~v.ok \/ v.vframes = <<>> THEN VFail(v)
    ELSE LET top == Last(v.vframes)
             w == VPopSeq(v, blockty_results(top.blockty, own)) IN
         IF ~w.ok \/ Len(w.vstack) # top.height THEN VFail(v)
         ELSE [w EXCEPT !.vframes = Front(@)]

VDepthOk(v, d) == d >= 0 /\ d < Len(v.vframes)

LocalTypes == FuncParams(0) \o DeclaredLocals

\* FuncValidator::op: the validator's state after op, ok = FALSE when it rejects it.
\* The operand and result types of the conversions.
ConversionFrom(op) ==
    CASE op = "I32Extend8S" -> "i32"
      [] op = "I64Extend32S" -> "i64"
      [] OTHER -> "f32"

ConversionTo(op) == IF op \in {"I32Extend8S", "I32TruncSatF32S"} THEN "i32" ELSE "i64"

VConverted(w, to) == IF w.ok THEN VPushSeq(w, <<to>>) ELSE w

VOp(v, op, own) ==
    IF ~v.ok \/ v.vframes = <<>> THEN VFail(v)
    ELSE
    CASE op.op \in {"Block", "Loop"} -> VPushCtrl(v, op.op, op.bt)
      [] op.op = "If" -> VPushCtrl(VPopOne(v, "i32"), "If", op.bt)
      [] op.op = "Else" ->
            IF Last(v.vframes).kind # "If" THEN VFail(v)
            ELSE LET bt == Last(v.vframes).blockty IN VPushCtrl(VPopCtrl(v, own), "Else", bt)
      [] op.op = "End" ->
            LET top == Last(v.vframes) IN
            IF top.kind = "If" /\ blockty_params(top.blockty) # blockty_results(top.blockty, own)
            THEN VFail(v)
            ELSE VPushSeq(VPopCtrl(v, own), blockty_results(top.blockty, own))
      [] op.op = "Br" ->
            IF ~VDepthOk(v, op.d) THEN VFail(v)
            ELSE VSetUnreachable(VPopSeq(v, VLabelTypes(v, op.d, own)))
      [] op.op = "BrIf" ->
            IF ~VDepthOk(v, op.d) THEN VFail(v)
            ELSE LET w == VPopSeq(VPopOne(v, "i32"), VLabelTypes(v, op.d, own)) IN
                 IF w.ok THEN VPushSeq(w, VLabelTypes(v, op.d, own)) ELSE w
      [] op.op = "BrTable" ->
            IF ~VDepthOk(v, op.d) \/ \E i \in DOMAIN op.tg : ~VDepthOk(v, op.tg[i])
            THEN VFail(v)
            ELSE LET w == VPopOne(v, "i32")
                     dflt == VLabelTypes(v, op.d, own) IN
                 IF \E i \in DOMAIN op.tg :
                        \/ Len(VLabelTypes(v, op.tg[i], own)) # Len(dflt)
                        \/ ~VPopSeq(w, VLabelTypes(v, op.tg[i], own)).ok
                 THEN VFail(v)
                 ELSE VSetUnreachable(VPopSeq(w, dflt))
      [] op.op = "Return" -> VSetUnreachable(VPopSeq(v, own))
      [] op.op = "Unreachable" -> VSetUnreachable(v)
      [] op.op = "Nop" -> v
      [] op.op = "Drop" -> VPopOne(v, "any")
      [] op.op = "I32Const" -> VPushSeq(v, <<"i32">>)
      [] op.op = "I64Const" -> VPushSeq(v, <<"i64">>)
      [] op.op = "LocalGet" ->
            IF op.d + 1 \in DOMAIN LocalTypes THEN VPushSeq(v, <<LocalTypes[op.d + 1]>>)
            ELSE VFail(v)
      [] op.op = "LocalSet" ->
            IF op.d + 1 \in DOMAIN LocalTypes THEN VPopOne(v, LocalTypes[op.d + 1])
            ELSE VFail(v)
      [] op.op = "LocalTee" ->
            IF op.d + 1 \in DOMAIN LocalTypes
            THEN LET w == VPopOne(v, LocalTypes[op.d + 1]) IN
                 IF w.ok THEN VPushSeq(w, <<LocalTypes[op.d + 1]>>) ELSE w
            ELSE VFail(v)
      [] op.op = "Call" ->
            LET w == VPopSeq(v, FuncParams(op.d)) IN
            IF w.ok THEN VPushSeq(w, FuncResultsOf(op.d, own)) ELSE w
      [] op.op = "I32Eqz" ->
            LET w == VPopOne(v, "i32") IN IF w.ok THEN VPushSeq(w, <<"i32">>) ELSE w
      [] op.op = "I32Add" ->
            LET w == VPopSeq(v, <<"i32", "i32">>) IN
            IF w.ok THEN VPushSeq(w, <<"i32">>) ELSE w
      [] op.op = "F32Const" -> VPushSeq(v, <<"f32">>)
      [] op.op \in {"I32Extend8S", "I64Extend32S", "I32TruncSatF32S", "I64TruncSatF32S"} ->
            VConverted(VPopOne(v, ConversionFrom(op.op)), ConversionTo(op.op))
      [] OTHER -> VFail(v)


(***************************************************************************)
(* The decoder (struct Builder, src/src/ir/decode.rs).  A builder is a     *)
(* record of the struct's fields; panic names the assertion that failed    *)
(* ("" while none has).  Block indices and local indices count from 0 as   *)
(* in the source; sequences count from 1.                                  *)
(***************************************************************************)
Frame(kind, blockty, stack_height, header, tb, fb, join) ==
    [kind |-> kind, blockty |-> blockty, unreachable |-> FALSE,
     stack_height |-> stack_height,
     header_block |-> header, true_block |-> tb, false_block |-> fb, join_block |-> join]

\* Builder::new
BuilderNew(own) ==
    [func_results |-> own,
     locals |-> FuncParams(0) \o DeclaredLocals,
     temp_count |-> 0,
     frames |-> <<Frame("Func", "functype", 0, 0, 0, 0, 0)>>,
     stack |-> <<>>,
     blocks |-> (0 :> Block(<<>>, <<>>, Unknown))
                @@ (1 :> Block(own, <<>>, Return([i \in 1..Len(own) |-> BlockParam(i - 1)]))),
     start_block |-> 0,
     current_block |-> 0,
     return_block |-> 1,
     next_block_index |-> 2,
     panic |-> ""]

Panic(b, why) == IF b.panic = "" THEN [b EXCEPT !.panic = why] ELSE b

\* Builder::frame_at
frame_at(b, relative_depth) == b.frames[Len(b.frames) - relative_depth]

\* Builder::frame_unreachable
frame_unreachable(b, relative_depth) == frame_at(b, relative_depth).unreachable

\* Builder::add_block: the builder with the block added under the next index.
add_block(b, node) ==
    [b EXCEPT !.blocks = (b.next_block_index :> node) @@ b.blocks,
              !.next_block_index = @ + 1]

SetTerminator(b, index, t) == [b EXCEPT !.blocks[index].terminator = t]

PushStatement(b, index, st) == [b EXCEPT !.blocks[index].statements = Append(@, st)]

\* branch_target_block without the Loop arm: a branch to a loop goes to its join block.
\* The branch targets of C28 must not survive it.
JoinBlockAlways(b, relative_depth) ==
    LET frame == frame_at(b, relative_depth) IN
    CASE frame.kind = "Func" -> b.return_block
      [] OTHER -> frame.join_block

\* FrameKind::branch_target_block, and Builder::branch_target_block for Func.
branch_target_block(b, relative_depth) ==
    LET frame == frame_at(b, relative_depth) IN
    CASE frame.kind = "Func" -> b.return_block
      [] frame.kind = "Loop" -> frame.header_block
      [] OTHER -> frame.join_block

\* push_block_params with its loop left out: no parameter is pushed.  The agreement
\* with the validator (C7) must not survive it.
PushNoParams(b, n) == b

\* Builder::push_block_params
push_block_params(b, n) ==
    [b EXCEPT !.stack = @ \o [i \in 1..n |-> BlockParam(i - 1)]]

\* Builder::pop: the builder after the pop and the expression popped.
pop(b) ==
    LET frame == frame_at(b, 0) IN
    IF Len(b.stack) < frame.stack_height
    THEN [b |-> Panic(b, "pop: stack below the frame"), e |-> Bottom]
    ELSE IF Len(b.stack) = frame.stack_height
    THEN [b |-> IF frame.unreachable THEN b ELSE Panic(b, "pop: underflow in a reachable frame"),
          e |-> Bottom]
    ELSE [b |-> [b EXCEPT !.stack = Front(@)], e |-> Last(b.stack)]

\* Builder::popn: the builder after n pops and the expressions, bottom-most first.
RECURSIVE popn(_, _)
PopnPush(rest, e) == [b |-> rest.b, es |-> Append(rest.es, e)]

PopnNext(one, n) == PopnPush(popn(one.b, n - 1), one.e)

popn(b, n) == IF n = 0 THEN [b |-> b, es |-> <<>>] ELSE PopnNext(pop(b), n)

\* Builder::pop_branch_params
pop_branch_params(b, relative_depth) ==
    LET frame == frame_at(b, relative_depth)
        count == CASE frame.kind = "Loop" -> Len(blockty_params(frame.blockty))
                   [] frame.kind = "Func" -> Len(b.func_results)
                   [] OTHER -> Len(blockty_results(frame.blockty, b.func_results)) IN
    popn(b, count)

\* The expression indexes a block parameter or a local that does not exist.
\* UnaryExpression::result_type, for the conversions the model carries.
result_type(op) ==
    CASE op \in {"I32Extend8S", "I32TruncSatF32S"} -> "i32"
      [] op \in {"I64Extend32S", "I64TruncSatF32S"} -> "i64"
      [] OTHER -> "i32"

\* The unary operators with an arm in Builder::expr_op.
UnaryOps == {"I32Extend8S", "I64Extend32S"}

ExprTypePanics(b, e, in_block) ==
    \/ e.k = "BlockParam" /\ e.n + 1 \notin DOMAIN in_block.params
    \/ e.k = "GetLocal" /\ e.n + 1 \notin DOMAIN b.locals
    \/ e.k = "GetLocalN" /\ \E i \in DOMAIN e.ix : e.ix[i] + 1 \notin DOMAIN b.locals

\* Builder::expr_type
expr_type(b, e, in_block) ==
    CASE e.k = "I32Const" -> <<"i32">>
      [] e.k = "I64Const" -> <<"i64">>
      [] e.k = "F32Const" -> <<"f32">>
      [] e.k \in UnaryOps -> <<result_type(e.k)>>
      [] e.k = "GetLocal" -> <<b.locals[e.n + 1]>>
      [] e.k = "GetLocalN" -> [i \in DOMAIN e.ix |-> b.locals[e.ix[i] + 1]]
      [] e.k = "Call" -> FuncResultsOf(e.n, b.func_results)
      [] e.k = "I32Eqz" -> <<"i32">>
      [] e.k = "I32Add" -> <<"i32">>
      [] e.k = "BlockParam" -> <<in_block.params[e.n + 1]>>
      [] OTHER -> <<>>

\* The body of the loop of Builder::sync_stack_before_statement once the operand's
\* type ty is known: fresh temporaries, the operand replaced, a LocalSetN appended.
SyncTyped(b, i, ty) ==
    IF ty = <<>>
    THEN IF b.stack[i].k = "Bottom" THEN b ELSE Panic(b, "sync: untyped operand is not Bottom")
    ELSE LET local_indices == [l \in 1..Len(ty) |-> Len(b.locals) + l - 1] IN
         [b EXCEPT !.temp_count = @ + Len(ty),
                   !.locals = @ \o ty,
                   !.stack[i] = GetLocalN(local_indices),
                   !.blocks[b.current_block].statements =
                        Append(@, LocalSetN(local_indices, b.stack[i]))]

\* One round of the loop of Builder::sync_stack_before_statement, for operand i.
SyncOperand(b, i) ==
    IF ExprTypePanics(b, b.stack[i], b.blocks[b.current_block])
    THEN Panic(b, "expr_type: index out of bounds")
    ELSE SyncTyped(b, i, expr_type(b, b.stack[i], b.blocks[b.current_block]))

RECURSIVE SyncFrom(_, _)
SyncFrom(b, i) ==
    IF i > Len(b.stack) \/ b.panic # "" THEN b ELSE SyncFrom(SyncOperand(b, i), i + 1)

\* Builder::sync_stack_before_statement
sync_stack_before_statement(b) == SyncFrom(b, frame_at(b, 0).stack_height + 1)

\* Builder::check_stack_for_block after its popn: results is [b, es].
StackChecked(results, block_params) ==
    [b |-> push_block_params(sync_stack_before_statement(results.b), block_params),
     es |-> results.es]

\* Builder::check_stack_for_block
check_stack_for_block(b, block_params) == StackChecked(popn(b, block_params), block_params)

\* after_unconditional_branch without its Drop statements: the stack is only truncated.
\* The drops of C29 must not survive it.
TruncateOnly(b) ==
    LET n == Len(b.frames)
        frame == b.frames[n]
        c == IF frame.unreachable THEN Panic(b, "after_unconditional_branch: frame unreachable")
             ELSE b IN
    [c EXCEPT !.stack = SubSeq(@, 1, frame.stack_height),
              !.frames[n].unreachable = TRUE]

\* Builder::after_unconditional_branch
after_unconditional_branch(b) ==
    LET n == Len(b.frames)
        frame == b.frames[n]
        dropped == SubSeq(b.stack, frame.stack_height + 1, Len(b.stack))
        c == IF frame.unreachable THEN Panic(b, "after_unconditional_branch: frame unreachable")
             ELSE b IN
    [c EXCEPT !.blocks[b.current_block].statements =
                    @ \o [i \in DOMAIN dropped |-> Drop(dropped[i])],
              !.stack = SubSeq(@, 1, frame.stack_height),
              !.frames[n].unreachable = TRUE]

\* The end of visit_block_op, visit_loop_op and visit_if_op: r is the result of
\* check_stack_for_block; the current block is terminated without looking at the
\* frame's unreachable flag, the new frame is pushed and its first block entered.
FrameEntered(b, terminator, first_block, frame) ==
    [b EXCEPT !.blocks[b.current_block].terminator = terminator,
              !.current_block = first_block,
              !.frames = Append(@, frame)]

BlockEntered(r, blockty, inner_block, join_block) ==
    FrameEntered(r.b, Br(inner_block, r.es), inner_block,
                 Frame("Block", blockty, Len(r.b.stack) - Len(blockty_params(blockty)),
                       0, 0, 0, join_block))

\* Builder::visit_block_op
visit_block_op(b, blockty) ==
    BlockEntered(
        check_stack_for_block(
            add_block(add_block(b, Block(blockty_params(blockty), <<>>, Unknown)),
                      Block(blockty_results(blockty, b.func_results), <<>>, Unknown)),
            Len(blockty_params(blockty))),
        blockty, b.next_block_index, b.next_block_index + 1)

LoopEntered(r, blockty, header_block, join_block) ==
    FrameEntered(r.b, Br(header_block, r.es), header_block,
                 Frame("Loop", blockty, Len(r.b.stack) - Len(blockty_params(blockty)),
                       header_block, 0, 0, join_block))

\* Builder::visit_loop_op
visit_loop_op(b, blockty) ==
    LoopEntered(
        check_stack_for_block(
            add_block(add_block(b, Block(blockty_params(blockty), <<>>, Unknown)),
                      Block(blockty_results(blockty, b.func_results), <<>>, Unknown)),
            Len(blockty_params(blockty))),
        blockty, b.next_block_index, b.next_block_index + 1)

IfEntered(r, condition, blockty, true_block, false_block, join_block) ==
    FrameEntered(r.b, BrIf(condition, true_block, false_block, r.es), true_block,
                 Frame("If", blockty, Len(r.b.stack) - Len(blockty_params(blockty)),
                       0, true_block, false_block, join_block))

\* visit_if_op after the condition is popped: condition is [b, e].
IfPopped(condition, blockty, true_block) ==
    IfEntered(check_stack_for_block(condition.b, Len(blockty_params(blockty))),
              condition.e, blockty, true_block, true_block + 1, true_block + 2)

\* Builder::visit_if_op
visit_if_op(b, blockty) ==
    IfPopped(
        pop(add_block(
                add_block(add_block(b, Block(blockty_params(blockty), <<>>, Unknown)),
                          Block(blockty_params(blockty), <<>>, Unknown)),
                Block(blockty_results(blockty, b.func_results), <<>>, Unknown))),
        blockty, b.next_block_index)

\* The value stack reset at else and end: truncated when the frame is unreachable,
\* asserted to be at the frame's height otherwise.
ResetStack(b, frame, why) ==
    IF frame.unreachable
    THEN [b EXCEPT !.stack = SubSeq(@, 1, IF Len(@) < frame.stack_height THEN Len(@)
                                          ELSE frame.stack_height)]
    ELSE IF Len(b.stack) = frame.stack_height THEN b ELSE Panic(b, why)

\* visit_else_op after the results are popped: results is [b, es], frame the if frame.
\* The true arm's last block is terminated whether or not the frame is unreachable.
ElsePopped(results, frame) ==
    FrameEntered(
        push_block_params(
            ResetStack([results.b EXCEPT !.frames = Front(@)], frame, "else: mismatched stack"),
            Len(blockty_params(frame.blockty))),
        Br(frame.join_block, results.es), frame.false_block,
        Frame("Else", frame.blockty, frame.stack_height,
              0, frame.true_block, frame.false_block, frame.join_block))

\* Builder::visit_else_op
visit_else_op(b) ==
    ElsePopped(
        popn(IF frame_at(b, 0).kind = "If" THEN b ELSE Panic(b, "else: not an if frame"),
             Len(blockty_results(frame_at(b, 0).blockty, b.func_results))),
        frame_at(b, 0))

\* The current block's terminator at end: set only when the frame is reachable.
EndTerminated(b, frame, terminator) ==
    IF ~frame.unreachable THEN SetTerminator(b, b.current_block, terminator) ELSE b

\* The move to the join block at end.
EndJoined(b, frame, block_results_count) ==
    push_block_params([b EXCEPT !.current_block = frame.join_block], block_results_count)

\* The empty false block of an if without else: results is [b, es].
EndFalseBlock(results, frame, block_results_count) ==
    EndJoined(SetTerminator(results.b, frame.false_block, Br(frame.join_block, results.es)),
              frame, block_results_count)

\* visit_end_op after the frame is popped and the stack reset.
EndReset(b, results, frame, block_results_count) ==
    CASE frame.kind = "Func" -> EndTerminated(b, frame, Return(results))
      [] frame.kind \in {"Block", "Loop", "Else"} ->
            EndJoined(EndTerminated(b, frame, Br(frame.join_block, results)),
                      frame, block_results_count)
      [] frame.kind = "If" ->
            EndFalseBlock(
                popn(push_block_params(EndTerminated(b, frame, Br(frame.join_block, results)),
                                       block_results_count),
                     block_results_count),
                frame, block_results_count)

\* visit_end_op after the results are popped: results is [b, es].
EndPopped(results, frame, block_results_count) ==
    EndReset(ResetStack([results.b EXCEPT !.frames = Front(@)], frame, "end: mismatched stack"),
             results.es, frame, block_results_count)

\* Builder::visit_end_op
visit_end_op(b) ==
    EndPopped(popn(b, Len(blockty_results(frame_at(b, 0).blockty, b.func_results))),
              frame_at(b, 0),
              Len(blockty_results(frame_at(b, 0).blockty, b.func_results)))

\* Builder::visit_unreachable_op
visit_unreachable_op(b) ==
    after_unconditional_branch(SetTerminator(b, b.current_block, Unreachable))

\* visit_br_op after the branch parameters are popped: branch_params is [b, es].
BrPopped(branch_params, target_is_func, target_block) ==
    after_unconditional_branch(
        SetTerminator(branch_params.b, branch_params.b.current_block,
                      IF target_is_func THEN Return(branch_params.es)
                      ELSE Br(target_block, branch_params.es)))

\* Builder::visit_br_op
visit_br_op(b, relative_depth) ==
    BrPopped(pop_branch_params(b, relative_depth),
             frame_at(b, relative_depth).kind = "Func",
             branch_target_block(b, relative_depth))

\* Builder::visit_return_op
visit_return_op(b) == visit_br_op(b, Len(b.frames) - 1)

RECURSIVE FlatTypes(_, _, _)
FlatTypes(b, es, in_block) ==
    IF es = <<>> THEN <<>>
    ELSE expr_type(b, Head(es), in_block) \o FlatTypes(b, Tail(es), in_block)

\* visit_br_if_op after the stack is synced: the fallthrough block takes the branch
\* parameters' types as its parameters.
BrIfSynced(b, condition, branch_params, relative_depth) ==
    LET cur == b.blocks[b.current_block]
        bad == \E i \in DOMAIN branch_params : ExprTypePanics(b, branch_params[i], cur)
        branch_param_types == IF bad THEN <<>> ELSE FlatTypes(b, branch_params, cur)
        fallthrough_block == b.next_block_index
        c == IF bad THEN Panic(b, "expr_type: index out of bounds") ELSE b IN
    [c EXCEPT !.blocks = (fallthrough_block :> Block(branch_param_types, <<>>, Unknown))
                         @@ [c.blocks EXCEPT ![b.current_block].terminator =
                                BrIf(condition, branch_target_block(b, relative_depth),
                                     fallthrough_block, branch_params)],
              !.next_block_index = @ + 1,
              !.current_block = fallthrough_block,
              !.stack = @ \o [i \in 1..Len(branch_params) |-> BlockParam(i - 1)]]

\* visit_br_if_op after the branch parameters are popped.
BrIfPopped(branch_params, condition, relative_depth) ==
    BrIfSynced(sync_stack_before_statement(branch_params.b), condition, branch_params.es,
               relative_depth)

\* visit_br_if_op after the condition is popped.
BrIfCondition(condition, relative_depth) ==
    BrIfPopped(pop_branch_params(condition.b, relative_depth), condition.e, relative_depth)

\* Builder::visit_br_if_op
visit_br_if_op(b, relative_depth) == BrIfCondition(pop(b), relative_depth)

\* visit_br_table_op after the branch parameters are popped; the selector is left
\* on the stack.
BrTablePopped(branch_params, targets, default_target) ==
    after_unconditional_branch(
        SetTerminator(branch_params.b, branch_params.b.current_block,
                      BrTable([i \in DOMAIN targets |->
                                    branch_target_block(branch_params.b, targets[i])],
                              default_target, branch_params.es)))

\* Builder::visit_br_table_op
visit_br_table_op(b, targets, default_target_depth) ==
    BrTablePopped(pop_branch_params(b, default_target_depth), targets,
                  branch_target_block(b, default_target_depth))

UnaryPopped(v) == [v.b EXCEPT !.stack = Append(@, Unary(v.e))]

UnaryOfPopped(v, op) == [v.b EXCEPT !.stack = Append(@, UnaryOf(op, v.e))]

BinaryPopped(lhs, rhs) == [lhs.b EXCEPT !.stack = Append(@, Binary(lhs.e, rhs))]

BinaryRhs(rhs) == BinaryPopped(pop(rhs.b), rhs.e)

\* Builder::expr_op: the operators that only push an expression.
expr_op(b, op) ==
    CASE op.op = "I32Const" -> [b EXCEPT !.stack = Append(@, I32Const(op.d))]
      [] op.op = "I64Const" -> [b EXCEPT !.stack = Append(@, I64Const(op.d))]
      [] op.op = "LocalGet" -> [b EXCEPT !.stack = Append(@, GetLocal(op.d))]
      [] op.op = "I32Eqz" -> UnaryPopped(pop(b))
      [] op.op = "F32Const" -> [b EXCEPT !.stack = Append(@, F32Const(op.d))]
      [] op.op \in UnaryOps -> UnaryOfPopped(pop(b), op.op)
      [] op.op = "I32Add" -> BinaryRhs(pop(b))
      [] OTHER -> Panic(b, "todo: unimplemented op")

\* The tail of Builder::visit_statement_op: sync the stack, then append the statement.
Synced(b, statement) == PushStatement(b, b.current_block, statement)

EmitStatement(b, statement) == Synced(sync_stack_before_statement(b), statement)

DropPopped(v) == EmitStatement(v.b, Drop(v.e))

LocalSetPopped(v, local_index) == EmitStatement(v.b, LocalSet(local_index, v.e))

\* local.tee: the read of the local is pushed before the stack is synced and the
\* LocalSet appended.
LocalTeePopped(v, local_index) ==
    EmitStatement([v.b EXCEPT !.stack = Append(@, GetLocal(local_index))],
                  LocalSet(local_index, v.e))

CallPopped(params, function_index, result_count) ==
    IF result_count = 0 THEN EmitStatement(params.b, CallStmt(CallExpr(function_index, params.es)))
    ELSE IF result_count = 1
    THEN [params.b EXCEPT !.stack = Append(@, CallExpr(function_index, params.es))]
    ELSE Panic(params.b, "unimplemented: multi-result call")

\* Builder::visit_statement_op on a reachable frame.
StatementOp(b, op) ==
    CASE op.op = "Nop" -> EmitStatement(b, Nop)
      [] op.op = "Drop" -> DropPopped(pop(b))
      [] op.op = "LocalSet" -> LocalSetPopped(pop(b), op.d)
      [] op.op = "LocalTee" -> LocalTeePopped(pop(b), op.d)
      [] op.op = "Call" ->
            CallPopped(popn(b, Len(FuncParams(op.d))), op.d,
                       Len(FuncResultsOf(op.d, b.func_results)))
      [] OTHER -> expr_op(b, op)

\* Builder::visit_statement_op
visit_statement_op(b, op) ==
    StatementOp(IF frame_unreachable(b, 0) THEN Panic(b, "statement in dead code") ELSE b, op)

StructuredOps == {"Block", "Loop", "If", "Else", "End"}

\* The dispatch of Builder::visit_op once the validator has accepted op: handled is
\* the builder the operator's handler gives.  Block, loop, if, else and end always
\* run their handler; any other operator is skipped while the frame is unreachable.
visit_op(b, op, handled) ==
    IF op.op \notin StructuredOps /\ frame_unreachable(b, 0) THEN b ELSE handled


(***************************************************************************)
(* The optimization passes (src/src/ir/passes.rs) as operators on the      *)
(* block map.  A pass state f is [blocks, changed, panic].                 *)
(***************************************************************************)
Min(S) == CHOOSE x \in S : \A y \in S : x <= y

RECURSIVE SortedSeq(_)
SortedSeq(S) == IF S = {} THEN <<>> ELSE <<Min(S)>> \o SortedSeq(S \ {Min(S)})

Occurrences(seq, x) == Cardinality({i \in DOMAIN seq : seq[i] = x})

\* Block::successors
BlockSuccessors(blocks, k) == Successors(blocks[k].terminator)

RECURSIVE Repeat(_, _)
Repeat(x, n) == IF n = 0 THEN <<>> ELSE <<x>> \o Repeat(x, n - 1)

RECURSIVE PredsOf(_, _, _)
PredsOf(blocks, s, keys) ==
    IF keys = <<>> THEN <<>>
    ELSE Repeat(Head(keys), Occurrences(BlockSuccessors(blocks, Head(keys)), s))
         \o PredsOf(blocks, s, Tail(keys))

\* Func::get_all_predecessors: every block that is a successor, with the list of its
\* predecessors, one entry per edge.  The list's order follows the HashMap's iteration
\* order; the passes read only its length and, when that is 1, its element.
get_all_predecessors(blocks) ==
    LET targets == UNION {Range(BlockSuccessors(blocks, k)) : k \in DOMAIN blocks} IN
    [s \in targets |-> PredsOf(blocks, s, SortedSeq(DOMAIN blocks))]

\* Block::is_trivial_block: <<target>> for a trivial block, <<>> otherwise.
is_trivial_block(block) ==
    IF block.params = <<>> /\ block.statements = <<>>
       /\ block.terminator.k = "Br" /\ block.terminator.args = <<>>
    THEN block.terminator.tg
    ELSE <<>>

\* Terminator::remap_block_indices; the unwrap of a missing index is reported apart.
RemapPanics(t, mapping) == \E i \in DOMAIN Successors(t) : Successors(t)[i] \notin DOMAIN mapping

remap_block_indices(t, mapping) ==
    [t EXCEPT !.tg = [i \in DOMAIN t.tg |-> mapping[t.tg[i]]],
              !.df = [i \in DOMAIN t.df |-> mapping[t.df[i]]]]

\* Func::jump_threading
jump_threading(f) ==
    LET trivial_blocks ==
            [k \in DOMAIN f.blocks |->
                IF is_trivial_block(f.blocks[k]) # <<>> THEN is_trivial_block(f.blocks[k])[1]
                ELSE k] IN
    IF \E k \in DOMAIN f.blocks : RemapPanics(f.blocks[k].terminator, trivial_blocks)
    THEN [f EXCEPT !.panic = "jump_threading: unwrap on a missing block"]
    ELSE [f EXCEPT !.blocks = [k \in DOMAIN f.blocks |->
              [f.blocks[k] EXCEPT !.terminator = remap_block_indices(@, trivial_blocks)]]]

\* The round of merge_trivial_branch_blocks without its test of the block's
\* parameters: a block with parameters is merged into its predecessor too.  The
\* ownership of block parameters (C30) must not survive it.
MergeWithParams(f, block_index, predecessors) ==
    IF Len(predecessors) # 1 THEN f
    ELSE IF predecessors[1] \notin DOMAIN f.blocks THEN f
    ELSE
    LET p == predecessors[1]
        predecessor_successors == BlockSuccessors(f.blocks, p) IN
    IF Len(predecessor_successors) # 1 \/ predecessor_successors[1] # block_index THEN f
    ELSE
    LET block == f.blocks[block_index]
        taken == [f.blocks EXCEPT ![block_index].statements = <<>>,
                                  ![block_index].terminator = Unknown]
        extended == [taken EXCEPT ![p].statements = @ \o block.statements] IN
    IF extended[p].terminator.k # "Br" THEN f
    ELSE [f EXCEPT !.blocks = [extended EXCEPT ![p].terminator = block.terminator],
                   !.changed = TRUE]

\* One round of the loop of Func::merge_trivial_branch_blocks, for the entry
\* (block_index, predecessors) of the predecessor map taken at the start of the pass.
MergeTrivialBody(f, block_index, predecessors) ==
    IF Len(predecessors) # 1 THEN f
    ELSE IF predecessors[1] \notin DOMAIN f.blocks
    THEN [f EXCEPT !.panic = "merge_trivial_branch_blocks: unwrap on a missing block"]
    ELSE
    LET p == predecessors[1]
        predecessor_successors == BlockSuccessors(f.blocks, p) IN
    IF Len(predecessor_successors) # 1 THEN f
    ELSE IF predecessor_successors[1] # block_index
    THEN [f EXCEPT !.panic = "merge_trivial_branch_blocks: successor is not the block"]
    ELSE IF f.blocks[block_index].params # <<>> THEN f
    ELSE
    LET block == f.blocks[block_index]
        taken == [f.blocks EXCEPT ![block_index].statements = <<>>,
                                  ![block_index].terminator = Unknown]
        extended == [taken EXCEPT ![p].statements = @ \o block.statements] IN
    IF extended[p].terminator.k # "Br"
    THEN [f EXCEPT !.blocks = extended,
                   !.panic = "merge_trivial_branch_blocks: predecessor does not end in Br"]
    ELSE [f EXCEPT !.blocks = [extended EXCEPT ![p].terminator = block.terminator],
                   !.changed = TRUE]

\* The common successor D chosen by Func::merge_if_blocks: <<"skip">> when the arms
\* go to different blocks, <<"some", d>> or <<"none">> otherwise.
CommonSuccessor(successors_b, successors_c) ==
    CASE successors_b # <<>> /\ successors_c # <<>> ->
            IF successors_b[1] = successors_c[1] THEN <<"some", successors_b[1]>>
            ELSE <<"skip">>
      [] successors_b # <<>> /\ successors_c = <<>> -> <<"some", successors_b[1]>>
      [] successors_b = <<>> /\ successors_c # <<>> -> <<"some", successors_c[1]>>
      [] OTHER -> <<"none">>

\* The test of the common successor D in Func::merge_if_blocks (lines 120-131): TRUE when
\* the diamond is given up.  The loop over D's predecessors only continues itself, so
\* only D's parameters decide.
GiveUpOnD(blocks, predecessor_map, d, index_b, index_c) ==
    blocks[d].params # <<>>

\* One round of the loop of Func::merge_if_blocks, for the key index_a.
MergeIfBody(f, predecessor_map, index_a) ==
    LET block_a == f.blocks[index_a] IN
    IF block_a.terminator.k # "BrIf" THEN f
    ELSE IF block_a.terminator.args # <<>> THEN f
    ELSE
    LET index_b == block_a.terminator.tg[1]
        index_c == block_a.terminator.tg[2] IN
    IF index_b \notin DOMAIN f.blocks \/ index_c \notin DOMAIN f.blocks
       \/ index_b \notin DOMAIN predecessor_map \/ index_c \notin DOMAIN predecessor_map
    THEN [f EXCEPT !.panic = "merge_if_blocks: missing block"]
    ELSE IF Len(predecessor_map[index_b]) # 1 \/ Len(predecessor_map[index_c]) # 1 THEN f
    ELSE IF predecessor_map[index_b][1] # index_a \/ predecessor_map[index_c][1] # index_a
    THEN [f EXCEPT !.panic = "merge_if_blocks: predecessor is not A"]
    ELSE
    LET block_b == f.blocks[index_b]
        block_c == f.blocks[index_c]
        successors_b == Successors(block_b.terminator)
        successors_c == Successors(block_c.terminator) IN
    IF Len(successors_b) > 1 \/ Len(successors_c) > 1 THEN f
    ELSE
    LET index_d == CommonSuccessor(successors_b, successors_c) IN
    IF index_d[1] = "skip" THEN f
    ELSE IF index_d[1] = "some"
            /\ (index_d[2] \notin DOMAIN f.blocks \/ index_d[2] \notin DOMAIN predecessor_map)
    THEN [f EXCEPT !.panic = "merge_if_blocks: missing block"]
    ELSE IF index_d[1] = "some"
            /\ GiveUpOnD(f.blocks, predecessor_map, index_d[2], index_b, index_c)
    THEN f
    ELSE
    LET if_statement == IfStmt(block_a.terminator.cond[1],
                               block_b.statements, block_c.statements)
        terminator == IF index_d[1] = "some" THEN Br(index_d[2], <<>>) ELSE Unreachable IN
    [f EXCEPT !.changed = TRUE,
              !.blocks[index_a].terminator = terminator,
              !.blocks[index_a].statements = Append(@, if_statement)]

\* The blocks reachable from the entry.
RECURSIVE Reach(_, _, _)
Reach(blocks, alive, frontier) ==
    IF frontier = {} THEN alive
    ELSE LET next == UNION {IF k \in DOMAIN blocks THEN Range(BlockSuccessors(blocks, k))
                            ELSE {} : k \in frontier} \ alive IN
         Reach(blocks, alive \cup next, next)

Alive(blocks, entry) == Reach(blocks, {entry}, {entry})

\* eliminate_dead_code with its worklist left out: only the entry block is retained.
\* Graph soundness (C6) must not survive it.
RetainEntryOnly(f, entry) == [f EXCEPT !.blocks = [k \in {entry} |-> f.blocks[k]]]

\* Func::eliminate_dead_code
eliminate_dead_code(f, entry) ==
    LET alive == Alive(f.blocks, entry) IN
    IF \E k \in alive : k \notin DOMAIN f.blocks
    THEN [f EXCEPT !.panic = "eliminate_dead_code: unwrap on a missing block"]
    ELSE [f EXCEPT !.blocks = [k \in alive |-> f.blocks[k]]]

\* Func::po_recursive: st is [visited, po, panic].
RECURSIVE po_recursive(_, _, _)
RECURSIVE PoSuccessors(_, _, _)
po_recursive(blocks, current, st) ==
    IF current \in st.visited THEN st
    ELSE IF current \notin DOMAIN blocks THEN [st EXCEPT !.panic = TRUE]
    ELSE LET after == PoSuccessors(blocks, BlockSuccessors(blocks, current),
                                   [st EXCEPT !.visited = @ \cup {current}]) IN
         [after EXCEPT !.po = Append(@, current)]

PoSuccessors(blocks, successors, st) ==
    IF successors = <<>> THEN st
    ELSE PoSuccessors(blocks, Tail(successors), po_recursive(blocks, Head(successors), st))

Reverse(s) == [i \in DOMAIN s |-> s[Len(s) + 1 - i]]

\* The post-order used as it is: the order of Func::rpo without its reversal.
PostOrder(blocks, entry) ==
    LET st == po_recursive(blocks, entry, [visited |-> {}, po |-> <<>>, panic |-> FALSE]) IN
    [order |-> st.po, panic |-> st.panic]

\* Func::rpo
rpo(blocks, entry) ==
    LET st == po_recursive(blocks, entry, [visited |-> {}, po |-> <<>>, panic |-> FALSE]) IN
    [order |-> Reverse(st.po), panic |-> st.panic]

\* The block map left as it is, no index changed.
KeepIndices(f, entry) == [blocks |-> f.blocks, entry |-> entry, panic |-> ""]

\* Func::renumber with Func::remap_block_indices: [blocks, entry, panic].
renumber(f, entry) ==
    LET r == rpo(f.blocks, entry)
        mapping == [old \in Range(r.order) |->
                        (CHOOSE i \in DOMAIN r.order : r.order[i] = old) - 1] IN
    IF r.panic
       \/ \E k \in DOMAIN f.blocks :
            k \notin DOMAIN mapping \/ RemapPanics(f.blocks[k].terminator, mapping)
    THEN [blocks |-> f.blocks, entry |-> entry,
          panic |-> "renumber: unwrap on a missing block"]
    ELSE [blocks |-> [new \in {mapping[k] : k \in DOMAIN f.blocks} |->
                        LET old == CHOOSE k \in DOMAIN f.blocks : mapping[k] = new IN
                        [f.blocks[old] EXCEPT !.terminator = remap_block_indices(@, mapping)]],
          entry |-> mapping[entry],
          panic |-> ""]

\* The assertions of Func::pretty and Block::pretty (src/src/ir/print.rs): "" when the
\* function prints, the failed assertion otherwise.
PrettyPanic(blocks, entry) ==
    IF DOMAIN blocks = {} THEN ""
    ELSE IF entry # Min(DOMAIN blocks) THEN "pretty: the entry block is not printed first"
    ELSE IF blocks[entry].params # <<>> THEN "pretty: the entry block has parameters"
    ELSE ""


(***************************************************************************)
(* Builder::check_invariants: the decoder's state read back against the    *)
(* validator's.                                                            *)
(***************************************************************************)
NoFrameUnreachable(fs) == \A i \in DOMAIN fs : ~fs[i].unreachable

\* The control stacks agree: same height and, frame by frame, the same unreachable
\* flag, stack height and block type.
FramesAgree(b, v) ==
    /\ Len(b.frames) = Len(v.vframes)
    /\ \A i \in DOMAIN b.frames :
        i \in DOMAIN v.vframes =>
            /\ b.frames[i].unreachable = v.vframes[i].unreachable
            /\ b.frames[i].stack_height = v.vframes[i].height
            /\ b.frames[i].blockty = v.vframes[i].blockty

\* The operand at each depth has the validator's type there.
OperandTypesAgree(b, v) ==
    \A i \in DOMAIN v.vstack :
        i \in DOMAIN b.stack =>
            LET ours == b.stack[Len(b.stack) + 1 - i]
                theirs == v.vstack[Len(v.vstack) + 1 - i]
                cur == b.blocks[b.current_block] IN
            IF theirs = "bot" THEN ours.k = "Bottom"
            ELSE /\ ~ExprTypePanics(b, ours, cur)
                 /\ expr_type(b, ours, cur) = <<theirs>>

\* The operand stacks agree: same height and the same type at each depth.
OperandsAgree(b, v) ==
    /\ Len(b.stack) = Len(v.vstack)
    /\ OperandTypesAgree(b, v)

\* TRUE when an assertion of check_invariants fails.
CheckInvariantsFails(b, v) ==
    /\ NoFrameUnreachable(b.frames)
    /\ \/ ~FramesAgree(b, v)
       \/ b.frames # <<>> /\ ~OperandsAgree(b, v)

(***************************************************************************)
(* The state: the builder's fields while the body is decoded, the Func's   *)
(* afterwards (blocks, entry_block and locals are moved into the Func by   *)
(* Builder::finish), the validator's stacks, and the position in           *)
(* Module::from_buffer, Func::optimize and Module::write (pc).             *)
(***************************************************************************)
VARIABLES
    pc,                \* where the pipeline stands
    rest,              \* operators of the body not yet read (a body of the corpus)
    fuel,              \* operators an enumerated body may still take
    func_results,      \* the decoded function's result types
    locals,            \* Builder.locals / Func.locals (types)
    temp_count,        \* Builder.temp_count
    frames,            \* Builder.frames
    stack,             \* Builder.stack
    blocks,            \* Builder.blocks / Func.blocks
    current_block,     \* Builder.current_block
    next_block_index,  \* Builder.next_block_index
    entry_block,       \* Builder.start_block / Func.entry_block
    vstack,            \* the validator's operand stack
    vframes,           \* the validator's control stack
    predecessor_map,   \* the map a merge pass took at its start
    todo,              \* keys the running merge pass has not visited yet
    changed,           \* the running merge pass's changed flag
    round,             \* 1 in Module::optimize, 2 in a second Func::optimize
    decoded,           \* the decoder's output, [blocks, entry]
    once,              \* the result of the first Func::optimize, [blocks, entry]
    last_op,           \* the operator read last
    panic              \* the assertion that aborted the process, "" when none

vars == <<pc, rest, fuel, func_results, locals, temp_count, frames, stack, blocks,
          current_block, next_block_index, entry_block, vstack, vframes,
          predecessor_map, todo, changed, round, decoded, once, last_op, panic>>

decoder_vars == <<locals, temp_count, frames, stack, current_block, next_block_index,
                  vstack, vframes, last_op>>

input_vars == <<rest, fuel, func_results>>

\* The builder as a record of the state.
Builder ==
    [func_results |-> func_results, locals |-> locals, temp_count |-> temp_count,
     frames |-> frames, stack |-> stack, blocks |-> blocks, start_block |-> entry_block,
     current_block |-> current_block, return_block |-> 1,
     next_block_index |-> next_block_index, panic |-> ""]

Validator == [ok |-> TRUE, vstack |-> vstack, vframes |-> vframes]

NoFunc == [blocks |-> <<>>, entry |-> 0]


(***************************************************************************)
(* Function bodies.  A body is either enumerated operator by operator      *)
(* from Alphabet, as long as the validator accepts it, or one of Corpus.   *)
(***************************************************************************)
oBlock(bt) == Op("Block", bt, 0, <<>>)
oLoop(bt) == Op("Loop", bt, 0, <<>>)
oIf(bt) == Op("If", bt, 0, <<>>)
oElse == Op("Else", "empty", 0, <<>>)
oEnd == Op("End", "empty", 0, <<>>)
oBr(d) == Op("Br", "empty", d, <<>>)
oBrIf(d) == Op("BrIf", "empty", d, <<>>)
oBrTable(tg, d) == Op("BrTable", "empty", d, tg)
oReturn == Op("Return", "empty", 0, <<>>)
oUnreachable == Op("Unreachable", "empty", 0, <<>>)
oNop == Op("Nop", "empty", 0, <<>>)
oDrop == Op("Drop", "empty", 0, <<>>)
oConst == Op("I32Const", "empty", 1, <<>>)
oGet(i) == Op("LocalGet", "empty", i, <<>>)
oSet(i) == Op("LocalSet", "empty", i, <<>>)
oTee(i) == Op("LocalTee", "empty", i, <<>>)
oCall(f) == Op("Call", "empty", f, <<>>)
oAdd == Op("I32Add", "empty", 0, <<>>)
oNone == Op("", "empty", 0, <<>>)
oF32Const == Op("F32Const", "empty", 1, <<>>)
oConvert(k) == Op(k, "empty", 0, <<>>)

Alphabet ==
    {oUnreachable, oNop, oDrop, oReturn, oElse, oEnd, oConst, oGet(0), oGet(1), oSet(0),
     oTee(0), oCall(1), oCall(2), oAdd}
    \cup {Op(k, bt, 0, <<>>) : k \in {"Block", "Loop", "If"}, bt \in {"empty", "i32"}}
    \cup {oBr(d) : d \in 0..(MaxFrames - 1)}
    \cup {oBrIf(d) : d \in 0..(MaxFrames - 1)}
    \cup {oBrTable(tg, d) : tg \in {<<>>, <<0>>}, d \in 0..(MaxFrames - 1)}

ResultChoices == {<<>>, <<"i32">>, <<"i64">>}

Body(results, body) == [results |-> results, body |-> body]

\* (func (param i32) (local i64) loop call 1 local.get 0 if return end br 0 end)
LoopIfReturn ==
    Body(<<>>, <<oLoop("empty"), oCall(1), oGet(0), oIf("empty"), oReturn, oEnd,
                 oBr(0), oEnd, oEnd>>)

\* (func (param i32) (local i64) loop block local.get 0 br_if 0 end br 0 end)
LoopBlockBrIf ==
    Body(<<>>, <<oLoop("empty"), oBlock("empty"), oGet(0), oBrIf(0), oEnd, oBr(0),
                 oEnd, oEnd>>)

\* (func (param i32) (local i64)
\*   local.get 0 if local.get 0 if end call 1 else return end)
NestedIf ==
    Body(<<>>, <<oGet(0), oIf("empty"), oGet(0), oIf("empty"), oEnd, oCall(1), oElse,
                 oReturn, oEnd, oEnd>>)

\* (func (param i32) (local i64) block local.get 0 br_table 0 end)
BlockBrTable ==
    Body(<<>>, <<oBlock("empty"), oGet(0), oBrTable(<<>>, 0), oEnd, oEnd>>)

\* (func (param i32) (result i32) (local i64)
\*   local.get 0 if (result i32) i32.const 1 else call 2 end)
IfElseResult ==
    Body(<<"i32">>, <<oGet(0), oIf("i32"), oConst, oElse, oCall(2), oEnd, oEnd>>)

\* (func (param i32) (result i32) (local i64) call 2 block end nop)
CallAcrossBlock ==
    Body(<<"i32">>, <<oCall(2), oBlock("empty"), oEnd, oNop, oEnd>>)

\* (func (param i32) (result i32) (local i64)
\*   loop local.get 0 i32.const 1 i32.add local.set 0 local.get 0 br_if 0 end
\*   local.get 0)
LoopBrIf ==
    Body(<<"i32">>, <<oLoop("empty"), oGet(0), oConst, oAdd, oSet(0), oGet(0), oBrIf(0),
                      oEnd, oGet(0), oEnd>>)

\* (func (param i32) (local i64) block local.get 0 br_if 0 end)
BlockBrIf ==
    Body(<<>>, <<oBlock("empty"), oGet(0), oBrIf(0), oEnd, oEnd>>)

\* (func (param i32) (local i64) block (result i32) i32.const 1 end local.get 0 br_if 0 drop)
ResultAcrossBrIf ==
    Body(<<>>, <<oBlock("i32"), oConst, oEnd, oGet(0), oBrIf(0), oDrop, oEnd>>)

\* (func (param i32) (local i64) call 4 drop drop)
CallTwoResults ==
    Body(<<>>, <<oCall(4), oDrop, oDrop, oEnd>>)

\* (func (param i32) (result i32) (local i64) local.get 0 i32.extend8_s)
SignExtend32 == Body(<<"i32">>, <<oGet(0), oConvert("I32Extend8S"), oEnd>>)

\* (func (param i32) (result i64) (local i64) local.get 1 i64.extend32_s)
SignExtend64 == Body(<<"i64">>, <<oGet(1), oConvert("I64Extend32S"), oEnd>>)

\* (func (param i32) (result i32) (local i64) f32.const 1 i32.trunc_sat_f32_s)
TruncSat32 == Body(<<"i32">>, <<oF32Const, oConvert("I32TruncSatF32S"), oEnd>>)

\* (func (param i32) (result i64) (local i64) f32.const 1 i64.trunc_sat_f32_s)
TruncSat64 == Body(<<"i64">>, <<oF32Const, oConvert("I64TruncSatF32S"), oEnd>>)

Corpus == {LoopIfReturn, LoopBlockBrIf, NestedIf, BlockBrTable, IfElseResult,
           CallAcrossBlock, LoopBrIf, CallTwoResults, SignExtend32, SignExtend64,
           TruncSat32, TruncSat64, BlockBrIf, ResultAcrossBrIf}

Init ==
    /\ \/ /\ func_results \in ResultChoices
          /\ rest = <<>>
          /\ fuel = MaxOps
       \/ \E c \in Corpus :
            /\ func_results = c.results
            /\ rest = c.body
            /\ fuel = 0
    /\ pc = "decode"
    /\ locals = BuilderNew(func_results).locals
    /\ temp_count = 0
    /\ frames = BuilderNew(func_results).frames
    /\ stack = <<>>
    /\ blocks = BuilderNew(func_results).blocks
    /\ current_block = 0
    /\ next_block_index = 2
    /\ entry_block = 0
    /\ vstack = VInit.vstack
    /\ vframes = VInit.vframes
    /\ predecessor_map = <<>>
    /\ todo = {}
    /\ changed = FALSE
    /\ round = 1
    /\ decoded = NoFunc
    /\ once = NoFunc
    /\ last_op = oNone
    /\ panic = ""

\* The operators the reader can deliver next.
Choices ==
    IF rest # <<>> THEN {Head(rest)}
    ELSE IF fuel > 0 THEN Alphabet
    ELSE {}

\* An enumerated body stays within the bounds and can still be closed.
WithinBounds(v) ==
    rest = <<>> =>
        /\ Len(v.vframes) <= MaxFrames
        /\ Len(v.vstack) <= MaxStack
        /\ fuel - 1 >= Len(v.vframes)

\* The state after one round of Func::decode's loop: v is the validator after op,
\* b the builder after Builder::visit_op; Builder::check_invariants runs on them and,
\* after the function's last end, Builder::finish makes the Func.
Commit(op, v, b) ==
    /\ v.ok
    /\ WithinBounds(v)
    /\ LET failed == IF b.panic # "" THEN b.panic
                     ELSE IF CheckInvariantsFails(b, v) THEN "check_invariants"
                     ELSE "" IN
       /\ panic' = failed
       /\ pc' = IF failed # "" THEN "panic"
                ELSE IF b.frames = <<>> THEN "optimize"
                ELSE "decode"
       /\ decoded' = IF failed = "" /\ b.frames = <<>>
                     THEN [blocks |-> b.blocks, entry |-> b.start_block]
                     ELSE decoded
    /\ locals' = b.locals
    /\ temp_count' = b.temp_count
    /\ frames' = b.frames
    /\ stack' = b.stack
    /\ blocks' = b.blocks
    /\ current_block' = b.current_block
    /\ next_block_index' = b.next_block_index
    /\ vstack' = v.vstack
    /\ vframes' = v.vframes

\* One round of Func::decode's loop for the operator op, whose handler gives handled.
Decode(op, handled) ==
    /\ pc = "decode"
    /\ Commit(op, VOp(Validator, op, func_results), visit_op(Builder, op, handled))
    /\ last_op' = op
    /\ rest' = IF rest # <<>> THEN Tail(rest) ELSE rest
    /\ fuel' = IF rest # <<>> THEN fuel ELSE fuel - 1
    /\ UNCHANGED <<func_results, entry_block, predecessor_map, todo, changed, round, once>>

\* The validator's verdict read after the handler: the rejected operator has already
\* emptied the operand stack when the error is returned.
RejectAfterHandling ==
    /\ pc = "decode"
    /\ \E op \in Choices : ~VOp(Validator, op, func_results).ok
    /\ pc' = "error"
    /\ stack' = <<>>
    /\ UNCHANGED <<rest, fuel, func_results, locals, temp_count, frames, blocks,
                   current_block, next_block_index, entry_block, vstack, vframes,
                   predecessor_map, todo, changed, round, decoded, once, last_op, panic>>

\* Builder::visit_op returns the validator's error: the operator is rejected.
ValidatorReject ==
    /\ pc = "decode"
    /\ \E op \in Choices : ~VOp(Validator, op, func_results).ok
    /\ pc' = "error"
    /\ UNCHANGED <<rest, fuel, func_results, locals, temp_count, frames, stack, blocks,
                   current_block, next_block_index, entry_block, vstack, vframes,
                   predecessor_map, todo, changed, round, decoded, once, last_op, panic>>

VisitBlock ==
    \E op \in Choices : op.op = "Block" /\ Decode(op, visit_block_op(Builder, op.bt))

VisitLoop ==
    \E op \in Choices : op.op = "Loop" /\ Decode(op, visit_loop_op(Builder, op.bt))

VisitIf ==
    \E op \in Choices : op.op = "If" /\ Decode(op, visit_if_op(Builder, op.bt))

VisitElse ==
    \E op \in Choices : op.op = "Else" /\ Decode(op, visit_else_op(Builder))

VisitEnd ==
    \E op \in Choices : op.op = "End" /\ Decode(op, visit_end_op(Builder))

VisitUnreachable ==
    \E op \in Choices : op.op = "Unreachable" /\ Decode(op, visit_unreachable_op(Builder))

VisitReturn ==
    \E op \in Choices : op.op = "Return" /\ Decode(op, visit_return_op(Builder))

VisitBr ==
    \E op \in Choices : op.op = "Br" /\ Decode(op, visit_br_op(Builder, op.d))

VisitBrIf ==
    \E op \in Choices : op.op = "BrIf" /\ Decode(op, visit_br_if_op(Builder, op.d))

VisitBrTable ==
    \E op \in Choices :
        op.op = "BrTable" /\ Decode(op, visit_br_table_op(Builder, op.tg, op.d))

StatementOps ==
    {"Nop", "Drop", "LocalSet", "LocalTee", "Call", "I32Const", "LocalGet", "I32Add",
     "F32Const", "I32Extend8S", "I64Extend32S", "I32TruncSatF32S", "I64TruncSatF32S"}

VisitStatement ==
    \E op \in Choices :
        op.op \in StatementOps /\ Decode(op, visit_statement_op(Builder, op))

(***************************************************************************)
(* Func::optimize, pass by pass.  The two merge passes walk a HashMap,     *)
(* whose iteration order is arbitrary: each round of their loops is a step *)
(* that takes any key not yet visited.                                     *)
(***************************************************************************)
F == [blocks |-> blocks, changed |-> changed, panic |-> ""]

pass_unchanged ==
    <<rest, fuel, func_results, locals, temp_count, frames, stack, current_block,
      next_block_index, vstack, vframes, decoded, last_op>>

\* Func::eliminate_dead_code, called first and after every changing round in
\* reconstruct_control_flow, and once more by Func::optimize after jump_threading.
EliminateDeadCode ==
    /\ pc \in {"optimize", "rcf_dce", "dce"}
    /\ \E r \in {eliminate_dead_code(F, entry_block)} :
       /\ blocks' = r.blocks
       /\ panic' = r.panic
       /\ pc' = IF r.panic # "" THEN "panic"
                ELSE IF pc = "dce" THEN "renumber"
                ELSE "merge_trivial"
    /\ UNCHANGED <<pass_unchanged, entry_block, predecessor_map, todo, changed, round, once>>

\* merge_trivial_branch_blocks up to its loop: the predecessor map is taken once.
MergeTrivialStart ==
    /\ pc = "merge_trivial"
    /\ predecessor_map' = get_all_predecessors(blocks)
    /\ todo' = DOMAIN get_all_predecessors(blocks)
    /\ changed' = FALSE
    /\ pc' = "merge_trivial_loop"
    /\ UNCHANGED <<pass_unchanged, entry_block, blocks, round, once, panic>>

\* One round of the loop of merge_trivial_branch_blocks.
MergeTrivialStep ==
    /\ pc = "merge_trivial_loop"
    /\ \E block_index \in todo :
      \E r \in {MergeTrivialBody(F, block_index, predecessor_map[block_index])} :
        /\ blocks' = r.blocks
        /\ changed' = r.changed
        /\ panic' = r.panic
        /\ pc' = IF r.panic # "" THEN "panic" ELSE pc
        /\ todo' = todo \ {block_index}
    /\ UNCHANGED <<pass_unchanged, entry_block, predecessor_map, round, once>>

\* merge_trivial_branch_blocks returns changed to the while of
\* reconstruct_control_flow: merge_if_blocks runs only when it is false.
MergeTrivialReturn ==
    /\ pc = "merge_trivial_loop"
    /\ todo = {}
    /\ pc' = IF changed THEN "rcf_dce" ELSE "merge_if"
    /\ predecessor_map' = <<>>
    /\ UNCHANGED <<pass_unchanged, entry_block, blocks, todo, changed, round, once, panic>>

\* merge_if_blocks up to its loop: the predecessor map and the keys are taken once.
MergeIfStart ==
    /\ pc = "merge_if"
    /\ predecessor_map' = get_all_predecessors(blocks)
    /\ todo' = DOMAIN blocks
    /\ changed' = FALSE
    /\ pc' = "merge_if_loop"
    /\ UNCHANGED <<pass_unchanged, entry_block, blocks, round, once, panic>>

\* One round of the loop of merge_if_blocks.
MergeIfStep ==
    /\ pc = "merge_if_loop"
    /\ \E index_a \in todo :
      \E r \in {MergeIfBody(F, predecessor_map, index_a)} :
        /\ blocks' = r.blocks
        /\ changed' = r.changed
        /\ panic' = r.panic
        /\ pc' = IF r.panic # "" THEN "panic" ELSE pc
        /\ todo' = todo \ {index_a}
    /\ UNCHANGED <<pass_unchanged, entry_block, predecessor_map, round, once>>

\* merge_if_blocks returning into a Func::optimize that ends with the structurer: the
\* pass order of C24 must tell it from the code's order.
StructurerLast ==
    /\ pc = "merge_if_loop"
    /\ todo = {}
    /\ pc' = IF changed THEN "rcf_dce" ELSE "optimized"
    /\ predecessor_map' = <<>>
    /\ UNCHANGED <<pass_unchanged, entry_block, blocks, todo, changed, round, once, panic>>

\* merge_if_blocks returns changed: the while of reconstruct_control_flow goes on with
\* eliminate_dead_code, or ends and Func::optimize goes on with jump_threading.
MergeIfReturn ==
    /\ pc = "merge_if_loop"
    /\ todo = {}
    /\ pc' = IF changed THEN "rcf_dce" ELSE "jump_threading"
    /\ predecessor_map' = <<>>
    /\ UNCHANGED <<pass_unchanged, entry_block, blocks, todo, changed, round, once, panic>>

\* Func::jump_threading
JumpThreading ==
    /\ pc = "jump_threading"
    /\ \E r \in {jump_threading(F)} :
       /\ blocks' = r.blocks
       /\ panic' = r.panic
       /\ pc' = IF r.panic # "" THEN "panic" ELSE "dce"
    /\ UNCHANGED <<pass_unchanged, entry_block, predecessor_map, todo, changed, round, once>>

\* Func::renumber, the last pass of Func::optimize.
Renumber ==
    /\ pc = "renumber"
    /\ \E r \in {renumber(F, entry_block)} :
       /\ blocks' = r.blocks
       /\ entry_block' = r.entry
       /\ panic' = r.panic
       /\ pc' = IF r.panic # "" THEN "panic" ELSE "optimized"
       /\ once' = IF round = 1 /\ r.panic = ""
                  THEN [blocks |-> r.blocks, entry |-> r.entry]
                  ELSE once
    /\ UNCHANGED <<pass_unchanged, predecessor_map, todo, changed, round>>

\* Func::optimize run a second time on its own result.
OptimizeAgain ==
    /\ pc = "optimized"
    /\ round = 1
    /\ round' = 2
    /\ pc' = "optimize"
    /\ UNCHANGED <<pass_unchanged, entry_block, blocks, predecessor_map, todo, changed,
                   once, panic>>

\* Module::write: the printer's assertions decide between output and abort.
Write ==
    /\ pc = "optimized"
    /\ panic' = PrettyPanic(blocks, entry_block)
    /\ pc' = IF PrettyPanic(blocks, entry_block) # "" THEN "panic" ELSE "written"
    /\ UNCHANGED <<pass_unchanged, entry_block, blocks, predecessor_map, todo, changed,
                   round, once>>

Next ==
    \/ VisitBlock
    \/ VisitLoop
    \/ VisitIf
    \/ VisitElse
    \/ VisitEnd
    \/ VisitUnreachable
    \/ VisitReturn
    \/ VisitBr
    \/ VisitBrIf
    \/ VisitBrTable
    \/ VisitStatement
    \/ ValidatorReject
    \/ EliminateDeadCode
    \/ MergeTrivialStart
    \/ MergeTrivialStep
    \/ MergeTrivialReturn
    \/ MergeIfStart
    \/ MergeIfStep
    \/ MergeIfReturn
    \/ JumpThreading
    \/ Renumber
    \/ OptimizeAgain
    \/ Write

Spec == Init /\ [][Next]_vars

\* The steps of Func::optimize.
Optimizing ==
    \/ EliminateDeadCode
    \/ MergeTrivialStart
    \/ MergeTrivialStep
    \/ MergeTrivialReturn
    \/ MergeIfStart
    \/ MergeIfStep
    \/ MergeIfReturn
    \/ JumpThreading
    \/ Renumber

\* Func::optimize is sequential code that runs to completion: a step of a pass that can
\* be taken is taken.
FairSpec == Spec /\ WF_vars(Optimizing)

TypeOK == pc \in {"decode", "error", "panic", "optimize", "rcf_dce", "dce", "merge_trivial",
                  "merge_trivial_loop", "merge_if", "merge_if_loop", "jump_threading",
                  "renumber", "optimized", "written"}


(***************************************************************************)
(* Func::optimize as one function of the decoded CFG, for the run in which *)
(* every HashMap yields its entries in ascending key order.                *)
(***************************************************************************)
RECURSIVE MergeTrivialInOrder(_, _, _)
MergeTrivialInOrder(f, map, keys) ==
    IF keys = <<>> \/ f.panic # "" THEN f
    ELSE MergeTrivialInOrder(MergeTrivialBody(f, Head(keys), map[Head(keys)]), map, Tail(keys))

\* Func::merge_trivial_branch_blocks
merge_trivial_branch_blocks(f) ==
    MergeTrivialInOrder([f EXCEPT !.changed = FALSE], get_all_predecessors(f.blocks),
                        SortedSeq(DOMAIN get_all_predecessors(f.blocks)))

RECURSIVE MergeIfInOrder(_, _, _)
MergeIfInOrder(f, map, keys) ==
    IF keys = <<>> \/ f.panic # "" THEN f
    ELSE MergeIfInOrder(MergeIfBody(f, map, Head(keys)), map, Tail(keys))

\* Func::merge_if_blocks
merge_if_blocks(f) ==
    MergeIfInOrder([f EXCEPT !.changed = FALSE], get_all_predecessors(f.blocks),
                   SortedSeq(DOMAIN f.blocks))

\* The while of Func::reconstruct_control_flow; every changing round kills a block, so
\* rounds bounds it.
RECURSIVE ReconstructLoop(_, _, _)
AfterMergeIf(f, entry, rounds) ==
    IF f.changed /\ f.panic = ""
    THEN ReconstructLoop(eliminate_dead_code(f, entry), entry, rounds - 1)
    ELSE f

AfterMergeTrivial(f, entry, rounds) ==
    IF f.panic # "" THEN f
    ELSE IF f.changed THEN ReconstructLoop(eliminate_dead_code(f, entry), entry, rounds - 1)
    ELSE AfterMergeIf(merge_if_blocks(f), entry, rounds)

ReconstructLoop(f, entry, rounds) ==
    IF rounds = 0 \/ f.panic # "" THEN f
    ELSE AfterMergeTrivial(merge_trivial_branch_blocks(f), entry, rounds)

\* Func::reconstruct_control_flow
reconstruct_control_flow(f, entry) ==
    ReconstructLoop(eliminate_dead_code(f, entry), entry, Cardinality(DOMAIN f.blocks) + 1)

Threaded(f, entry) ==
    IF f.panic # "" THEN [blocks |-> f.blocks, entry |-> entry, panic |-> f.panic]
    ELSE renumber(eliminate_dead_code(f, entry), entry)

Reconstructed(f, entry) == Threaded(IF f.panic # "" THEN f ELSE jump_threading(f), entry)

\* Func::optimize: [blocks, entry, panic].
optimize(func) ==
    Reconstructed(
        reconstruct_control_flow([blocks |-> func.blocks, changed |-> FALSE, panic |-> ""],
                                 func.entry),
        func.entry)

(***************************************************************************)
(* Vocabulary of the properties.                                           *)
(***************************************************************************)
\* The function is the one Module::from_buffer returns: decoded and optimized once.
Returned == pc \in {"optimized", "written"} /\ round = 1

\* The function is the decoder's output, no pass has run.
JustDecoded == pc = "optimize" /\ round = 1

RECURSIVE ExprHasBottom(_)
ExprHasBottom(e) == e.k = "Bottom" \/ \E i \in DOMAIN e.args : ExprHasBottom(e.args[i])

RECURSIVE StmtHasBottom(_)
StmtHasBottom(st) ==
    \/ \E i \in DOMAIN st.es : ExprHasBottom(st.es[i])
    \/ \E i \in DOMAIN st.t : StmtHasBottom(st.t[i])
    \/ \E i \in DOMAIN st.f : StmtHasBottom(st.f[i])

BlockHasBottom(block) ==
    \/ \E i \in DOMAIN block.statements : StmtHasBottom(block.statements[i])
    \/ \E i \in DOMAIN block.terminator.cond : ExprHasBottom(block.terminator.cond[i])
    \/ \E i \in DOMAIN block.terminator.args : ExprHasBottom(block.terminator.args[i])

RECURSIVE ExprHasCall(_)
ExprHasCall(e) == e.k = "Call" \/ \E i \in DOMAIN e.args : ExprHasCall(e.args[i])

\* A statement with an effect on the locals or outside the function.
SideEffecting(st) ==
    \/ st.k \in {"Call", "LocalSet", "LocalSetN"}
    \/ st.k = "Drop" /\ ExprHasCall(st.es[1])

\* The event of a two-way choice on the condition c, and of a br_table's choice.
Decision(c, taken) == Stmt("Decision", IF taken THEN 1 ELSE 0, <<>>, <<c>>, <<>>, <<>>)
TableChoice(i) == Stmt("TableChoice", i, <<>>, <<>>, <<>>, <<>>)

Prefixed(event, traces) == {<<event>> \o t : t \in traces}
Joined(first, then) == {a \o b : a \in first, b \in then}

\* The event sequences a statement list can execute: its side-effecting statements in
\* order, an If statement choosing an arm on its condition.
RECURSIVE StmtTraces(_)
StmtTraces(sts) ==
    IF sts = <<>> THEN {<<>>}
    ELSE Joined(
            IF Head(sts).k = "If"
            THEN Prefixed(Decision(Head(sts).es[1], TRUE), StmtTraces(Head(sts).t))
                 \cup Prefixed(Decision(Head(sts).es[1], FALSE), StmtTraces(Head(sts).f))
            ELSE IF SideEffecting(Head(sts)) THEN {<<Head(sts)>>}
            ELSE {<<>>},
            StmtTraces(Tail(sts)))

\* The event sequences of the paths that start at block k, visit at most hops blocks
\* and end at a terminator without successor.
RECURSIVE PathTraces(_, _, _)
PathTraces(bs, k, hops) ==
    IF hops = 0 \/ k \notin DOMAIN bs THEN {}
    ELSE Joined(
            StmtTraces(bs[k].statements),
            CASE bs[k].terminator.k = "Br" -> PathTraces(bs, bs[k].terminator.tg[1], hops - 1)
              [] bs[k].terminator.k = "BrIf" ->
                    Prefixed(Decision(bs[k].terminator.cond[1], TRUE),
                             PathTraces(bs, bs[k].terminator.tg[1], hops - 1))
                    \cup Prefixed(Decision(bs[k].terminator.cond[1], FALSE),
                                  PathTraces(bs, bs[k].terminator.tg[2], hops - 1))
              [] bs[k].terminator.k = "BrTable" ->
                    UNION {Prefixed(TableChoice(i),
                                    PathTraces(bs, Successors(bs[k].terminator)[i], hops - 1)) :
                           i \in DOMAIN Successors(bs[k].terminator)}
              [] OTHER -> {<<>>})

\* Every branch edge out of block k carries the target's parameters: as many arguments
\* as the target has parameters, each of the parameter's type.
EdgesMatch(bs, k) ==
    \A i \in DOMAIN Successors(bs[k].terminator) :
        LET target == Successors(bs[k].terminator)[i]
            args == bs[k].terminator.args IN
        /\ target \in DOMAIN bs
        /\ Len(args) = Len(bs[target].params)
        /\ \A j \in DOMAIN args :
            /\ ~ExprTypePanics(Builder, args[j], bs[k])
            /\ expr_type(Builder, args[j], bs[k]) = <<bs[target].params[j]>>

\* Every block index a terminator names, and the entry, is a key of the block map.
GraphSound(bs, entry) ==
    /\ entry \in DOMAIN bs
    /\ \A k \in DOMAIN bs : Range(Successors(bs[k].terminator)) \subseteq DOMAIN bs

\* A pass of Func::optimize, or the decoder, has just returned.
BetweenPasses ==
    pc \in {"optimize", "rcf_dce", "merge_trivial", "merge_if", "jump_threading", "dce",
            "renumber", "optimized", "written"}

\* The decoder has just handled an operator and check_invariants has run.
AfterOperator ==
    /\ pc \in {"decode", "optimize", "panic"}
    /\ round = 1
    /\ last_op # oNone
    /\ panic \in {"", "check_invariants"}

\* The control stacks of decoder and validator agree.
ControlAgrees ==
    /\ Len(frames) = Len(vframes)
    /\ \A i \in DOMAIN frames :
        i \in DOMAIN vframes =>
            /\ frames[i].unreachable = vframes[i].unreachable
            /\ frames[i].blockty = vframes[i].blockty
            /\ frames[i].stack_height = vframes[i].height

\* The operand stacks of decoder and validator agree.
OperandStacksAgree ==
    /\ Len(stack) = Len(vstack)
    /\ \A d \in DOMAIN stack :
        d \in DOMAIN vstack =>
            IF vstack[d] = "bot" THEN stack[d].k = "Bottom"
            ELSE /\ ~ExprTypePanics(Builder, stack[d], blocks[current_block])
                 /\ expr_type(Builder, stack[d], blocks[current_block]) = <<vstack[d]>>


(***************************************************************************)
(* The properties.                                                         *)
(***************************************************************************)

\* C1: in the function Module::from_buffer returns, every block reachable from the
\* entry block has a terminator other than Unknown.
C1_ReachableBlocksTerminated ==
    Returned =>
        \A k \in Alive(blocks, entry_block) :
            k \in DOMAIN blocks => blocks[k].terminator.k # "Unknown"

\* C2: after Func::optimize no statement and no terminator of a block of the block map
\* contains a Bottom expression.
C2_NoBottomAfterOptimize ==
    Returned => \A k \in DOMAIN blocks : ~BlockHasBottom(blocks[k])

\* C3: every path of the CFG before reconstruct_control_flow executes the same
\* side-effecting statements, in the same order and under the same choices, in the CFG
\* after it.
C3_PathsPreserved ==
    (pc = "jump_threading" /\ round = 1) =>
        PathTraces(decoded.blocks, decoded.entry, MaxHops)
            \subseteq PathTraces(blocks, entry_block, MaxHops)

\* C4: while the current frame is unreachable, no operator changes the terminator or
\* the statements of the current block.
C4_DeadTailLeavesBlock ==
    [][(pc = "decode" /\ frames # <<>> /\ Last(frames).unreachable)
        => blocks'[current_block] = blocks[current_block]]_vars

\* C5: in the decoder's output, every branch edge out of a block reachable from the
\* entry carries as many arguments as its target has parameters, each of the
\* parameter's type.
C5_BranchArgumentsMatch ==
    JustDecoded => \A k \in Alive(blocks, entry_block) : EdgesMatch(blocks, k)

\* C6: after decoding and after each pass, every block index named by a terminator of
\* the block map is a key of the block map, and so is the entry index.
C6_GraphSound == BetweenPasses => GraphSound(blocks, entry_block)

\* C6, its case: dead code was eliminated and a branch remains.
C6_Witness ==
    /\ pc = "renumber"
    /\ Cardinality(DOMAIN blocks) < Cardinality(DOMAIN decoded.blocks)
    /\ \E k \in DOMAIN blocks : Successors(blocks[k].terminator) # <<>>

\* C7 as stated: after every operator decoded while no frame is unreachable, the
\* operand stacks and the control stacks of decoder and validator agree.
C7_AgreesAfterEveryOperator ==
    (AfterOperator /\ NoFrameUnreachable(frames)) => (ControlAgrees /\ OperandStacksAgree)

\* C7, amended: the control stacks agree after every such operator, and the operand
\* stacks agree as long as a frame is open; after the function's last end the validator
\* holds the function's results and the decoder holds nothing.
C7_AgreesWhileAFrameIsOpen ==
    (AfterOperator /\ NoFrameUnreachable(frames)) =>
        /\ ControlAgrees
        /\ frames # <<>> => OperandStacksAgree
        /\ frames = <<>> => (stack = <<>> /\ vstack = func_results)

\* C7, its case: an end has left the join block's parameter on both operand stacks.
C7_Witness ==
    /\ pc = "decode"
    /\ last_op = oEnd
    /\ frames # <<>>
    /\ NoFrameUnreachable(frames)
    /\ stack # <<>>
    /\ Last(stack).k = "BlockParam"

\* The aborts that only a module outside the fuzz configuration reaches: the
\* configuration has no multi-value function type and no saturating truncation.
OutsideFuzzConfiguration == {"unimplemented: multi-result call", "todo: unimplemented op"}

\* C8: on a module of the fuzz configuration Module::from_buffer and Module::write reach
\* no assertion, unwrap, unreachable!, unimplemented! or todo!.
C8_NoPanic == pc = "panic" => panic \in OutsideFuzzConfiguration

\* C9: a second Func::optimize leaves the entry index and the block map as the first
\* left them.
C9_OptimizeIdempotent ==
    (pc = "optimized" /\ round = 2) => (blocks = once.blocks /\ entry_block = once.entry)

\* C10: whatever order the passes visit the HashMaps in, Func::optimize ends with the
\* block map of the run that visits them in ascending key order.
C10_OrderIndependent ==
    Returned =>
        /\ optimize(decoded).panic = ""
        /\ blocks = optimize(decoded).blocks
        /\ entry_block = optimize(decoded).entry

\* C11: after Func::optimize the keys of the block map are 0..n-1 for the n blocks
\* reachable from the entry, the entry has index 0, and every block of the map is
\* reachable from the entry.
C11_DenseFromEntry ==
    Returned =>
        /\ entry_block = 0
        /\ DOMAIN blocks = 0..(Cardinality(Alive(blocks, entry_block)) - 1)
        /\ Alive(blocks, entry_block) = DOMAIN blocks

\* C11, its case: the decoder left blocks unreachable from the entry and at least
\* three blocks remain after Func::optimize.
C11_Witness ==
    /\ Returned
    /\ Cardinality(DOMAIN blocks) >= 3
    /\ Alive(decoded.blocks, decoded.entry) # DOMAIN decoded.blocks

\* Func::renumber has returned.
AfterRenumber == pc \in {"optimized", "written"}

\* u dominates v: every path from the entry to v passes through u.
Dominates(bs, entry, u, v) ==
    u = v \/ v \notin Alive([k \in DOMAIN bs \ {u} |-> bs[k]], entry)

\* The edges of the CFG, as pairs <<u, v>>.
Edges(bs) == {<<u, v>> : u \in DOMAIN bs, v \in DOMAIN bs} \cap
             UNION {{<<u, v>> : v \in Range(BlockSuccessors(bs, u))} : u \in DOMAIN bs}

\* C12 as stated: after renumber the entry has index 0 and for every edge u -> v either
\* u dominates v or v's index is at most u's.
C12_ForwardEdgesDominate ==
    AfterRenumber =>
        /\ entry_block = 0
        /\ \A e \in Edges(blocks) :
            Dominates(blocks, entry_block, e[1], e[2]) \/ e[2] <= e[1]

\* C12, amended: after renumber the entry has index 0 and every edge u -> v either goes
\* to a greater index or is a back edge, whose target v dominates u.
C12_RetreatingEdgesAreBackEdges ==
    AfterRenumber =>
        /\ entry_block = 0
        /\ \A e \in Edges(blocks) :
            e[1] < e[2] \/ Dominates(blocks, entry_block, e[2], e[1])

\* C12, its case: the renumbered CFG has a back edge from a later block to an earlier
\* one, and forward edges.
C12_Witness ==
    /\ AfterRenumber
    /\ \E e \in Edges(blocks) : e[2] < e[1]
    /\ \E g \in Edges(blocks) : g[1] < g[2]

\* The decoder is at work on the function, or has just finished it.
WhileDecoding == pc \in {"decode", "optimize"} /\ round = 1

\* Statement st of some block initialises temporaries from the expression kind k.
TempSetFrom(st, k) == st.k = "LocalSetN" /\ st.es[1].k = k

\* The temporary t is initialised from a call, in block k.
TempOfCall(bs, k, t) ==
    \E i \in DOMAIN bs[k].statements :
        TempSetFrom(bs[k].statements[i], "Call") /\ bs[k].statements[i].ix = <<t>>

\* C13: a call's value that was materialized into a temporary and stays on the operand
\* stack across a block boundary keeps that temporary: no later block initialises a
\* second temporary from the first.
C13_OneTempPerCallValue ==
    WhileDecoding =>
        \A k \in DOMAIN blocks, j \in DOMAIN blocks :
            \A i \in DOMAIN blocks[j].statements :
                (/\ k # j
                 /\ TempSetFrom(blocks[j].statements[i], "GetLocalN")
                 /\ blocks[j].statements[i].es[1].ix # <<>>)
                    => ~TempOfCall(blocks, k, blocks[j].statements[i].es[1].ix[1])

\* The decoder's output for a body that is one parameterless loop ending in br_if 0
\* and followed by the function's result: the entry 0 enters the header 2, the header
\* ends in a conditional branch to itself or to the fall-through block 4, which runs
\* into the loop's join block 3, which returns the result.
LoopBrIfDecoded ==
    /\ DOMAIN decoded.blocks = 0..4
    /\ decoded.entry = 0
    /\ decoded.blocks[0] = Block(<<>>, <<>>, Br(2, <<>>))
    /\ decoded.blocks[2].terminator.k = "BrIf"
    /\ decoded.blocks[2].terminator.tg = <<2, 4>>
    /\ decoded.blocks[4] = Block(<<>>, <<>>, Br(3, <<>>))
    /\ decoded.blocks[3].statements = <<>>
    /\ decoded.blocks[3].terminator.k = "Return"

\* C14: for such a body the optimized IR has exactly two blocks: the loop block, with
\* the loop's statements in source order and a conditional branch back to itself or on
\* to the exit, and the exit block, which returns.
C14_LoopBrIfTwoBlocks ==
    (Returned /\ LoopBrIfDecoded) =>
        \E l \in DOMAIN blocks, x \in DOMAIN blocks :
            /\ DOMAIN blocks = {l, x}
            /\ l # x
            /\ blocks[l].statements = decoded.blocks[2].statements
            /\ blocks[l].terminator.k = "BrIf"
            /\ Range(blocks[l].terminator.tg) = {l, x}
            /\ blocks[x].terminator.k = "Return"

\* The operator just read is a call whose callee has more than one result.
MultiResultCallRead ==
    /\ round = 1
    /\ pc \in {"decode", "optimize", "panic", "error"}
    /\ last_op.op = "Call"
    /\ Len(FuncResultsOf(last_op.d, func_results)) > 1

\* C15: a call whose callee has more than one result makes Func::decode return an
\* error: the function is neither decoded further nor is the process aborted.
C15_MultiResultCallIsAnError == MultiResultCallRead => pc = "error"

ConversionOps == {"I32Extend8S", "I64Extend32S", "I32TruncSatF32S", "I64TruncSatF32S"}

\* C17: a sign-extension or trunc_sat operator read in reachable code is decoded
\* without failure into a Unary expression of that operator, whose type is the integer
\* type the opcode names.
C17_ConversionsDecoded ==
    (round = 1 /\ pc \in {"decode", "panic"} /\ last_op.op \in ConversionOps) =>
        /\ pc = "decode"
        /\ stack # <<>>
        /\ Last(stack) = UnaryOf(last_op.op, Last(stack).args[1])
        /\ expr_type(Builder, Last(stack), blocks[current_block])
                = <<ConversionTo(last_op.op)>>

\* The event of a path's end at a terminator without successor.
PathEnd(t) == Stmt(t.k, 0, <<>>, t.args, <<>>, <<>>)

\* The choices a statement list can make: one Decision per If statement run, then the
\* choices of the arm taken.
RECURSIVE StmtChoices(_)
StmtChoices(sts) ==
    IF sts = <<>> THEN {<<>>}
    ELSE Joined(
            IF Head(sts).k = "If"
            THEN Prefixed(Decision(Head(sts).es[1], TRUE), StmtChoices(Head(sts).t))
                 \cup Prefixed(Decision(Head(sts).es[1], FALSE), StmtChoices(Head(sts).f))
            ELSE {<<>>},
            StmtChoices(Tail(sts)))

\* The paths that start at block k, visit at most hops blocks and end at a Return or an
\* Unreachable terminator: the choices made on the way, then the terminator reached.
RECURSIVE EndTraces(_, _, _)
EndTraces(bs, k, hops) ==
    IF hops = 0 \/ k \notin DOMAIN bs THEN {}
    ELSE Joined(
            StmtChoices(bs[k].statements),
            CASE bs[k].terminator.k = "Br" -> EndTraces(bs, bs[k].terminator.tg[1], hops - 1)
              [] bs[k].terminator.k = "BrIf" ->
                    Prefixed(Decision(bs[k].terminator.cond[1], TRUE),
                             EndTraces(bs, bs[k].terminator.tg[1], hops - 1))
                    \cup Prefixed(Decision(bs[k].terminator.cond[1], FALSE),
                                  EndTraces(bs, bs[k].terminator.tg[2], hops - 1))
              [] bs[k].terminator.k = "BrTable" ->
                    UNION {Prefixed(TableChoice(i),
                                    EndTraces(bs, Successors(bs[k].terminator)[i], hops - 1)) :
                           i \in DOMAIN Successors(bs[k].terminator)}
              [] bs[k].terminator.k \in {"Return", "Unreachable"} ->
                    {<<PathEnd(bs[k].terminator)>>}
              [] OTHER -> {})

\* C18: every path of the decoder's CFG that ends at a Return(values) or an Unreachable
\* terminator ends, under the same choices, at a terminator of the same kind with the
\* same values after reconstruct_control_flow.
C18_PathEndsPreserved ==
    (pc = "jump_threading" /\ round = 1) =>
        EndTraces(decoded.blocks, decoded.entry, MaxHops)
            \subseteq EndTraces(blocks, entry_block, MaxHops)

\* local.tee has just been decoded in reachable code.
TeeDecoded ==
    /\ pc = "decode"
    /\ round = 1
    /\ last_op.op = "LocalTee"
    /\ frames # <<>>
    /\ ~Last(frames).unreachable

\* The positions of the statement list that store into local x.
StoresInto(sts, x) == {j \in DOMAIN sts : sts[j].k = "LocalSet" /\ sts[j].n = x}

\* C19: after local.tee x the operand left on the stack denotes the value just stored:
\* it reads x, and a temporary that stands for it is initialised from x after the
\* LocalSet(x, value) statement of the tee.
C19_TeeOperandReadsStoredValue ==
    TeeDecoded =>
        LET sts == blocks[current_block].statements
            x == last_op.d IN
        /\ stack # <<>>
        /\ StoresInto(sts, x) # {}
        /\ \/ Last(stack) = GetLocal(x)
           \/ \E i \in DOMAIN sts :
                /\ sts[i] = LocalSetN(Last(stack).ix, GetLocal(x))
                /\ \A j \in StoresInto(sts, x) : j < i

\* The step decodes a br_table in a reachable frame; the validator has seen the i32
\* selector on top of the operand stack.
BrTableStep ==
    /\ pc = "decode"
    /\ pc' # "error"
    /\ last_op'.op = "BrTable"
    /\ frames # <<>>
    /\ ~Last(frames).unreachable
    /\ stack # <<>>

\* The operands of s directly beneath its top, n of them.
Beneath(s, n) == SubSeq(s, Len(s) - n, Len(s) - 1)

\* C20: br_table in a reachable frame consumes the selector on top of the operand
\* stack: the BrTable terminator's arguments are the operands directly beneath it, and
\* no statement the operator appends drops the selector.
C20_SelectorConsumed ==
    [][BrTableStep =>
        /\ blocks'[current_block].terminator.k = "BrTable"
        /\ blocks'[current_block].terminator.args
                = Beneath(stack, Len(blocks'[current_block].terminator.args))
        /\ \A i \in DOMAIN blocks'[current_block].statements :
                i \notin DOMAIN blocks[current_block].statements
                    => blocks'[current_block].statements[i] # Drop(Last(stack))]_vars

\* Func::jump_threading has just returned.
AfterJumpThreading == pc = "dce"

\* Following the targets of trivial blocks from cur leads back to start within n hops,
\* over trivial blocks only.
RECURSIVE ChainBack(_, _, _, _)
ChainBack(bs, cur, start, n) ==
    /\ n > 0
    /\ cur \in DOMAIN bs
    /\ is_trivial_block(bs[cur]) # <<>>
    /\ \/ is_trivial_block(bs[cur])[1] = start
       \/ ChainBack(bs, is_trivial_block(bs[cur])[1], start, n - 1)

\* C21: after jump_threading no terminator targets a trivial block, except a trivial
\* block that lies on a cycle of trivial blocks.
C21_NoEdgeToTrivialBlock ==
    AfterJumpThreading =>
        \A k \in DOMAIN blocks :
            \A t \in Range(Successors(blocks[k].terminator)) :
                t \in DOMAIN blocks =>
                    \/ is_trivial_block(blocks[t]) = <<>>
                    \/ ChainBack(blocks, t, t, Cardinality(DOMAIN blocks))

\* C22: whenever merge_trivial_branch_blocks comes to a block B without parameters whose
\* single predecessor A has a single successor, A's terminator is Br(B) with no
\* arguments, so the assertion on the predecessor's terminator holds.
C22_PredecessorEndsInBr ==
    pc = "merge_trivial_loop" =>
        \A block_index \in todo :
            /\ Len(predecessor_map[block_index]) = 1
            /\ predecessor_map[block_index][1] \in DOMAIN blocks
            /\ Len(BlockSuccessors(blocks, predecessor_map[block_index][1])) = 1
            /\ blocks[block_index].params = <<>>
            => blocks[predecessor_map[block_index][1]].terminator = Br(block_index, <<>>)

\* C23: merge_if_blocks turns A's BrIf(cond, B, C) into an If statement followed by
\* Br(D) only when D has no parameters and every predecessor of D is B or C.
C23_DiamondOwnsItsJoin ==
    [][pc = "merge_if_loop" =>
        \A index_a \in DOMAIN blocks :
            /\ blocks[index_a].terminator.k = "BrIf"
            /\ blocks'[index_a].terminator.k = "Br"
            => /\ blocks[blocks'[index_a].terminator.tg[1]].params = <<>>
               /\ \A p \in Range(predecessor_map[blocks'[index_a].terminator.tg[1]]) :
                      p \in Range(blocks[index_a].terminator.tg)]_vars

\* The positions inside Func::reconstruct_control_flow.
InStructurer == {"rcf_dce", "merge_trivial", "merge_trivial_loop", "merge_if", "merge_if_loop"}

\* C24 as stated: Func::optimize runs jump threading first, then dead-block elimination,
\* then RPO renumbering, and the structurer last.
C24_StructurerRunsLast ==
    [][/\ pc = "optimize" => pc' \in {"jump_threading", "panic"}
       /\ pc = "jump_threading" => pc' \in {"dce", "panic"}
       /\ pc = "dce" => pc' \in {"renumber", "panic"}
       /\ pc = "renumber" => pc' \in InStructurer \cup {"panic"}
       /\ pc \in InStructurer => pc' \in InStructurer \cup {"optimized", "panic"}]_vars

\* C24 (amended): Func::optimize runs the structurer first (dead-block elimination, then
\* the two merge rules until neither changes anything), then jump threading, then
\* dead-block elimination, then RPO renumbering, after which it returns.
C24_StructurerRunsFirst ==
    [][/\ pc = "optimize" => pc' \in {"merge_trivial", "panic"}
       /\ pc \in InStructurer => pc' \in InStructurer \cup {"jump_threading", "panic"}
       /\ pc = "jump_threading" =>
              \/ pc' = "dce" /\ blocks' = jump_threading(F).blocks
              \/ pc' = "panic"
       /\ pc = "dce" =>
              \/ pc' = "renumber" /\ blocks' = eliminate_dead_code(F, entry_block).blocks
              \/ pc' = "panic"
       /\ pc = "renumber" =>
              \/ pc' = "optimized" /\ blocks' = renumber(F, entry_block).blocks
              \/ pc' = "panic"
       /\ pc' = "optimized" => pc = "renumber"]_vars

\* Func::optimize has returned a function in which the structurer built an If statement,
\* jump threading redirected an edge and renumbering gave it dense indices.
C24_Witness ==
    /\ Returned
    /\ \E k \in DOMAIN blocks : \E i \in DOMAIN blocks[k].statements :
           blocks[k].statements[i].k = "If"
    /\ DOMAIN blocks # DOMAIN decoded.blocks

\* C25: in the decoder's output and after every pass, the two targets of every BrIf are
\* distinct blocks and both are keys of the block map.
C25_BrIfTargetsDistinct ==
    BetweenPasses /\ round = 1 =>
        \A k \in DOMAIN blocks :
            blocks[k].terminator.k = "BrIf" =>
                /\ blocks[k].terminator.tg[1] # blocks[k].terminator.tg[2]
                /\ blocks[k].terminator.tg[1] \in DOMAIN blocks
                /\ blocks[k].terminator.tg[2] \in DOMAIN blocks

\* C26: reconstruct_control_flow terminates: from its start, its loop reaches the
\* iteration in which neither merge rule reports a change, and Func::optimize goes on
\* with jump threading.
C26_ReachesQuietIteration == (pc = "optimize") ~> (pc = "jump_threading")

\* The operators from which Builder::visit_statement_op makes a statement that consumes
\* operands: drop, local.set, local.tee and a call without results.
SinkOps == {"Drop", "LocalSet", "LocalTee", "Call"}

\* The decoder handles a sink operator in a reachable frame.
SinkStep ==
    /\ pc = "decode"
    /\ pc' \notin {"error", "panic"}
    /\ last_op'.op \in SinkOps
    /\ last_op'.op = "Call" => FuncResultsOf(last_op'.d, func_results) = <<>>
    /\ frames # <<>>
    /\ ~Last(frames).unreachable

\* The number of operands the sink op consumes.
Popped(op) == IF op.op = "Call" THEN Len(FuncParams(op.d)) ELSE 1

\* The non-Bottom operands of the current frame that stay on the stack under the
\* operands of op, bottom first.
Kept(op) ==
    SelectSeq(SubSeq(stack, Last(frames).stack_height + 1, Len(stack) - Popped(op)),
              LAMBDA e : e.k # "Bottom")

\* The statement of the sink op, built from the operands it consumes.
SinkStatement(op) ==
    CASE op.op = "Drop" -> Drop(Last(stack))
      [] op.op \in {"LocalSet", "LocalTee"} -> LocalSet(op.d, Last(stack))
      [] OTHER -> CallStmt(CallExpr(op.d, SubSeq(stack, Len(stack) - Popped(op) + 1,
                                                 Len(stack))))

\* The statements a step appends to the current block.
Appended ==
    SubSeq(blocks'[current_block].statements,
           Len(blocks[current_block].statements) + 1,
           Len(blocks'[current_block].statements))

BranchStep ==
    /\ pc = "decode"
    /\ pc' # "error"
    /\ last_op'.op \in {"Br", "BrIf", "BrTable"}
    /\ frames # <<>>
    /\ ~Last(frames).unreachable

\* The frame at a relative depth before the step.
TargetFrame(d) == frames[Len(frames) - d]

\* The number of values a branch to the frame carries.
BranchArity(frame) ==
    CASE frame.kind = "Loop" -> Len(blockty_params(frame.blockty))
      [] frame.kind = "Func" -> Len(func_results)
      [] OTHER -> Len(blockty_results(frame.blockty, func_results))

\* The block a branch to a frame other than the function's goes to.
BranchTarget(frame) ==
    IF frame.kind = "Loop" THEN frame.header_block ELSE frame.join_block

\* C28: br, br_if and br_table at relative depth d in a reachable frame pop as many
\* branch arguments as the target frame's block type has results (Block, If, Else),
\* parameters (Loop) or the function has results (Func), and they branch to the join
\* block of a Block, If or Else frame and to the header block of a Loop frame.
C28_BranchArityAndTarget ==
    [][BranchStep =>
        /\ pc' # "panic"
        /\ blocks'[current_block].terminator.k
               = IF last_op'.op = "Br" /\ TargetFrame(last_op'.d).kind = "Func"
                 THEN "Return" ELSE last_op'.op
        /\ Len(blocks'[current_block].terminator.args) = BranchArity(TargetFrame(last_op'.d))
        /\ Len(stack) - Len(blocks'[current_block].terminator.args)
               >= Last(frames).stack_height
        /\ TargetFrame(last_op'.d).kind # "Func" =>
               CASE last_op'.op = "Br" ->
                        blocks'[current_block].terminator.tg
                            = <<BranchTarget(TargetFrame(last_op'.d))>>
                 [] last_op'.op = "BrIf" ->
                        blocks'[current_block].terminator.tg[1]
                            = BranchTarget(TargetFrame(last_op'.d))
                 [] OTHER ->
                        blocks'[current_block].terminator.df
                            = <<BranchTarget(TargetFrame(last_op'.d))>>
        /\ last_op'.op = "BrTable" =>
               \A i \in DOMAIN last_op'.tg :
                   TargetFrame(last_op'.tg[i]).kind # "Func" =>
                       blocks'[current_block].terminator.tg[i]
                           = BranchTarget(TargetFrame(last_op'.tg[i]))]_vars

\* A br to a loop whose block type has a result and no parameter has been decoded: the
\* branch goes to the loop's header block and carries no argument.
C28_Witness ==
    /\ WhileDecoding
    /\ pc = "decode"
    /\ last_op.op = "Br"
    /\ last_op.d = 0
    /\ Last(frames).kind = "Loop"
    /\ Last(frames).blockty # "empty"
    /\ blocks[current_block].terminator = Br(Last(frames).header_block, <<>>)

\* The decoder handles unreachable, br, return or br_table in a reachable frame.
UnconditionalStep ==
    /\ pc = "decode"
    /\ pc' # "error"
    /\ last_op'.op \in {"Unreachable", "Br", "Return", "BrTable"}
    /\ frames # <<>>
    /\ ~Last(frames).unreachable

\* The number of branch arguments the operator pops.
ArgumentsPopped(op) ==
    CASE op.op = "Unreachable" -> 0
      [] op.op = "Return" -> Len(func_results)
      [] OTHER -> BranchArity(TargetFrame(op.d))

\* The operands of the current frame under the branch arguments, bottom first.
LeftOnStack(op) ==
    SubSeq(stack, Last(frames).stack_height + 1, Len(stack) - ArgumentsPopped(op))

\* C29: unreachable, br, return and br_table in a reachable frame append one Drop
\* statement for every operand left above the frame's stack_height once the branch
\* arguments are popped, in the order the operands were pushed; afterwards the stack
\* height is the frame's stack_height and the frame is unreachable.
C29_LeftOperandsDropped ==
    [][UnconditionalStep =>
        /\ pc' # "panic"
        /\ current_block' = current_block
        /\ Appended = [i \in DOMAIN LeftOnStack(last_op') |-> Drop(LeftOnStack(last_op')[i])]
        /\ stack' = SubSeq(stack, 1, Last(frames).stack_height)
        /\ Len(frames') = Len(frames)
        /\ Last(frames').unreachable
        /\ Last(frames').stack_height = Last(frames).stack_height]_vars

\* An unconditional branch has dropped two operands, the one pushed first first.
C29_Witness ==
    /\ WhileDecoding
    /\ pc = "decode"
    /\ last_op.op \in {"Unreachable", "Br", "Return", "BrTable"}
    /\ Last(frames).unreachable
    /\ Len(blocks[current_block].statements) >= 2
    /\ \E e1, e2 \in {I32Const(1), GetLocal(0), GetLocal(1)} :
           /\ e1 # e2
           /\ SubSeq(blocks[current_block].statements,
                     Len(blocks[current_block].statements) - 1,
                     Len(blocks[current_block].statements)) = <<Drop(e1), Drop(e2)>>

\* Every BlockParam in the expression indexes one of n parameters.
RECURSIVE ExprParamsWithin(_, _)
ExprParamsWithin(e, n) ==
    /\ e.k = "BlockParam" => e.n < n
    /\ \A i \in DOMAIN e.args : ExprParamsWithin(e.args[i], n)

RECURSIVE StmtParamsWithin(_, _)
StmtParamsWithin(st, n) ==
    /\ \A i \in DOMAIN st.es : ExprParamsWithin(st.es[i], n)
    /\ \A i \in DOMAIN st.t : StmtParamsWithin(st.t[i], n)
    /\ \A i \in DOMAIN st.f : StmtParamsWithin(st.f[i], n)

BlockParamsWithin(block) ==
    /\ \A i \in DOMAIN block.statements :
           StmtParamsWithin(block.statements[i], Len(block.params))
    /\ \A i \in DOMAIN block.terminator.cond :
           ExprParamsWithin(block.terminator.cond[i], Len(block.params))
    /\ \A i \in DOMAIN block.terminator.args :
           ExprParamsWithin(block.terminator.args[i], Len(block.params))

\* C30: in the decoder's output and after every pass, a BlockParam(i) in a statement or
\* terminator of a block reachable from the entry indexes a parameter of that block.
C30_BlockParamsAreOwn ==
    BetweenPasses /\ round = 1 =>
        \A k \in Alive(blocks, entry_block) :
            k \in DOMAIN blocks => BlockParamsWithin(blocks[k])

\* The decoder's output has a reachable block that writes its parameter to a temp, and
\* a reachable block without parameters that reads the temp.
C30_Witness ==
    /\ JustDecoded
    /\ \E k \in Alive(blocks, entry_block) : \E i \in DOMAIN blocks[k].statements :
           /\ blocks[k].params # <<>>
           /\ blocks[k].statements[i].k = "LocalSetN"
           /\ blocks[k].statements[i].es = <<BlockParam(0)>>
           /\ \E j \in Alive(blocks, entry_block) :
                  /\ blocks[j].params = <<>>
                  /\ Drop(GetLocalN(blocks[k].statements[i].ix)) \in Range(blocks[j].statements)

====
